---- MODULE Spec2Model ----
(***************************************************************************)
(* RateWise: the request execution pipeline of the blocking client         *)
(* (client.py), the circuit breaker (circuit_breaker.py), the in-memory    *)
(* cache (cache.py) and the retry helpers (retry.py).                      *)
(*                                                                         *)
(* Time is a discrete clock `now` (time.time()); delays and timeouts are   *)
(* whole clock units.                                                      *)
(***************************************************************************)
EXTENDS Integers, Sequences, FiniteSets, TLC

\* ------------------------------------------------------------------ bounds
MaxTime == 4
MaxThreshold == 2
MaxBreakerCalls == 3
MaxCacheOps == 3
MaxCacheTime == 2
MaxAttempts == 3
MaxCalls == 3
MaxTransport == 3
MaxDelay == 4
MaxRetryAfter == 3
RecoveryTimeout == 2
DefaultTtl == 2
MaxSize == 2
MaxLruOps == 4
MaxJitterRatio == 2
MaxValueLen == 3
PartialMaskChars == 1
NumThreads == 2
MaxThreadCalls == 2
MaxStatsCalls == 1
MaxChain == 3
\* listeners registered on a breaker
MaxListeners == 2

\* ExponentialBackoff.initial_delay and .multiplier
InitialDelay == 1
Multiplier == 2

VARIABLES
    now,            \* time.time()
    cb,             \* the CircuitBreaker object (client.circuit_breaker)
    cache,          \* the InMemoryCache object (client.cache)
    stats,          \* RateWiseClient._stats (ClientStats)
    retry_count,    \* RateWiseClient.retry_count
    retry_delays,   \* RateWiseClient._retry_delays
    retry_config,   \* RateWiseClient.retry_config (RetryConfig)
    backoff,        \* RateWiseClient.backoff (ExponentialBackoff)
    middleware,     \* RateWiseClient.middleware (MiddlewareChain)
    pc,             \* position of the running _make_request call
    call,           \* locals of the running _make_request call
    result,         \* how the last _make_request call ended
    hist,           \* observations of the run (what the transport and sleep saw)
    op              \* the last operation applied and what it returned

vars == <<now, cb, cache, stats, retry_count, retry_delays, retry_config,
          backoff, middleware, pc, call, result, hist, op>>

None == -1

Min(a, b) == IF a <= b THEN a ELSE b
Max(a, b) == IF a >= b THEN a ELSE b

RECURSIVE Pow(_, _)
Pow(b, e) == IF e <= 0 THEN 1 ELSE b * Pow(b, e - 1)

\* ---------------------------------------------------------------- errors

\* the ResponseError subclass that stands for a status: AuthenticationError
\* (401), AuthorizationError (403), NotFoundError (404)
TypedError(status_code) ==
    CASE status_code = 401 -> "AuthenticationError"
      [] status_code = 403 -> "AuthorizationError"
      [] status_code = 404 -> "NotFoundError"
      [] OTHER             -> "ResponseError"

\* ---------------------------------------------------------- circuit breaker

CLOSED == "closed"
OPEN == "open"
HALF_OPEN == "half_open"
CircuitState == {CLOSED, OPEN, HALF_OPEN}

\* CircuitBreaker.__init__
NewCircuitBreaker(failure_threshold, success_threshold, recovery_timeout) ==
    [ failure_threshold |-> failure_threshold,
      success_threshold |-> success_threshold,
      recovery_timeout  |-> recovery_timeout,
      state             |-> CLOSED,
      failure_count     |-> 0,
      success_count     |-> 0,
      last_failure_time |-> None,
      total_calls       |-> 0,
      successful_calls  |-> 0,
      failed_calls      |-> 0,
      rejected_calls    |-> 0,
      state_transitions |-> 0,
      lock              |-> None ]    \* the thread holding _lock

\* threading.RLock without mutual exclusion: acquire never blocks
LockFreeAlways(b, t) == TRUE

\* threading.RLock.acquire returns for thread t when no other thread holds it
LockFree(b, t) == b.lock \in {None, t}

\* a recovery test that asks for more than recovery_timeout to have passed
ShouldAttemptRecoveryLate(b, t) ==
    IF b.last_failure_time = None
    THEN TRUE
    ELSE (t - b.last_failure_time) > b.recovery_timeout

\* CircuitBreaker._should_attempt_recovery
ShouldAttemptRecovery(b, t) ==
    IF b.last_failure_time = None
    THEN TRUE
    ELSE (t - b.last_failure_time) >= b.recovery_timeout

\* CircuitBreaker._transition_to
TransitionTo(b, new_state) ==
    IF b.state = new_state
    THEN b
    ELSE [ b EXCEPT
             !.state = new_state,
             !.state_transitions = @ + 1,
             !.failure_count = IF new_state = CLOSED THEN 0 ELSE @,
             !.success_count = IF new_state \in {CLOSED, HALF_OPEN} THEN 0 ELSE @ ]

\* CircuitBreaker.is_open: the breaker afterwards and the value returned
IsOpen(b, t) ==
    IF b.state = OPEN
    THEN IF ShouldAttemptRecovery(b, t)
         THEN [ cb |-> TransitionTo(b, HALF_OPEN), ret |-> FALSE ]
         ELSE [ cb |-> b, ret |-> TRUE ]
    ELSE [ cb |-> b, ret |-> FALSE ]

\* allow_request without line 203: a denial that is not counted as rejected
AllowRequestUncounted(b, t) ==
    LET r == IsOpen(b, t) IN
    IF r.ret
    THEN [ cb |-> r.cb, ret |-> FALSE ]
    ELSE [ cb |-> r.cb, ret |-> TRUE ]

\* CircuitBreaker.allow_request: the breaker afterwards and the value returned
AllowRequest(b, t) ==
    LET r == IsOpen(b, t) IN
    IF r.ret
    THEN [ cb |-> [ r.cb EXCEPT !.rejected_calls = @ + 1 ], ret |-> FALSE ]
    ELSE [ cb |-> r.cb, ret |-> TRUE ]

\* record_success that also closes an Open breaker
RecordSuccessClosing(b) ==
    LET b1 == [ b EXCEPT !.total_calls = @ + 1, !.successful_calls = @ + 1 ] IN
    IF b1.state \in {HALF_OPEN, OPEN}
    THEN LET b2 == [ b1 EXCEPT !.success_count = @ + 1 ] IN
         IF b2.success_count >= b2.success_threshold
         THEN TransitionTo(b2, CLOSED)
         ELSE b2
    ELSE IF b1.state = CLOSED
         THEN [ b1 EXCEPT !.failure_count = 0 ]
         ELSE b1

\* record_success that leaves failure_count alone in Closed
RecordSuccessKeeping(b) ==
    LET b1 == [ b EXCEPT !.total_calls = @ + 1, !.successful_calls = @ + 1 ] IN
    IF b1.state = HALF_OPEN
    THEN LET b2 == [ b1 EXCEPT !.success_count = @ + 1 ] IN
         IF b2.success_count >= b2.success_threshold
         THEN TransitionTo(b2, CLOSED)
         ELSE b2
    ELSE b1

\* CircuitBreaker.record_success
RecordSuccess(b) ==
    LET b1 == [ b EXCEPT !.total_calls = @ + 1, !.successful_calls = @ + 1 ] IN
    IF b1.state = HALF_OPEN
    THEN LET b2 == [ b1 EXCEPT !.success_count = @ + 1 ] IN
         IF b2.success_count >= b2.success_threshold
         THEN TransitionTo(b2, CLOSED)
         ELSE b2
    ELSE IF b1.state = CLOSED
         THEN [ b1 EXCEPT !.failure_count = 0 ]
         ELSE b1

\* record_failure that opens only once failure_count exceeds the threshold
RecordFailureLate(b, t) ==
    LET b1 == [ b EXCEPT !.total_calls = @ + 1,
                         !.failed_calls = @ + 1,
                         !.failure_count = @ + 1,
                         !.last_failure_time = t ] IN
    IF b1.state = HALF_OPEN
    THEN TransitionTo(b1, OPEN)
    ELSE IF b1.state = CLOSED
         THEN IF b1.failure_count > b1.failure_threshold
              THEN TransitionTo(b1, OPEN)
              ELSE b1
         ELSE b1

\* record_failure that leaves last_failure_time alone while the breaker is Open
RecordFailureStale(b, t) ==
    LET b1 == [ b EXCEPT !.total_calls = @ + 1,
                         !.failed_calls = @ + 1,
                         !.failure_count = @ + 1,
                         !.last_failure_time = IF b.state = OPEN THEN @ ELSE t ] IN
    IF b1.state = HALF_OPEN
    THEN TransitionTo(b1, OPEN)
    ELSE IF b1.state = CLOSED
         THEN IF b1.failure_count >= b1.failure_threshold
              THEN TransitionTo(b1, OPEN)
              ELSE b1
         ELSE b1

\* CircuitBreaker.record_failure, called with no exception
RecordFailure(b, t) ==
    LET b1 == [ b EXCEPT !.total_calls = @ + 1,
                         !.failed_calls = @ + 1,
                         !.failure_count = @ + 1,
                         !.last_failure_time = t ] IN
    IF b1.state = HALF_OPEN
    THEN TransitionTo(b1, OPEN)
    ELSE IF b1.state = CLOSED
         THEN IF b1.failure_count >= b1.failure_threshold
              THEN TransitionTo(b1, OPEN)
              ELSE b1
         ELSE b1

\* CircuitBreaker.reset
Reset(b) ==
    [ TransitionTo(b, CLOSED) EXCEPT
        !.failure_count = 0,
        !.success_count = 0,
        !.last_failure_time = None ]

\* ------------------------------ circuit breaker: error kinds and callbacks

\* record_failure called with no exception
NoException == "None"

\* no on_state_change callback given
NoCallback == "None"

\* the classes an exception of class kind is an instance of (its class and
\* the classes it derives from)
Mro(kind) ==
    CASE kind = "ValueError"        -> {"ValueError", "Exception", "BaseException"}
      [] kind = "OSError"           -> {"OSError", "Exception", "BaseException"}
      [] kind = "TimeoutError"      -> {"TimeoutError", "OSError", "Exception",
                                        "BaseException"}
      [] kind = "KeyboardInterrupt" -> {"KeyboardInterrupt", "BaseException"}
      [] kind = "CancelledError"    -> {"CancelledError", "BaseException"}
      [] OTHER                      -> {"Exception", "BaseException"}

\* isinstance(exception, classes), classes a tuple of classes
IsInstance(kind, classes) == Mro(kind) \cap classes # {}

\* CircuitBreaker.__init__ given expected_exceptions, excluded_exceptions and
\* on_state_change: `expected_exceptions or (Exception,)`,
\* `excluded_exceptions or ()`
NewCircuitBreakerWith(ft, st, rt, expected_exceptions, excluded_exceptions, on_state_change) ==
    NewCircuitBreaker(ft, st, rt) @@
    [ expected_exceptions |-> IF expected_exceptions = {} THEN {"Exception"}
                              ELSE expected_exceptions,
      excluded_exceptions |-> excluded_exceptions,
      on_state_change     |-> on_state_change,
      listeners           |-> << >> ]

\* what a callback does when invoked: "raiser" raises an Exception, the
\* others return
CallbackRaises(callback) == callback = "raiser"

\* one invocation callback(old_state, new_state)
Invocation(callback, old_state, new_state) ==
    [ callback |-> callback, old_state |-> old_state, new_state |-> new_state ]

\* _transition_to, lines 156-160: every listener is invoked in order, an
\* Exception it raises is logged and the loop goes on
NotifyListeners(b, old_state, new_state) ==
    [ calls  |-> [ i \in 1..Len(b.listeners) |->
                     Invocation(b.listeners[i], old_state, new_state) ],
      raised |-> FALSE ]

\* _transition_to, lines 153-160: the invocations made, in order, and whether
\* an exception leaves _transition_to. on_state_change is invoked outside any
\* try statement: if it raises, the listeners are not reached
Notify(b, old_state, new_state) ==
    IF b.on_state_change # NoCallback
    THEN LET first == << Invocation(b.on_state_change, old_state, new_state) >> IN
         IF CallbackRaises(b.on_state_change)
         THEN [ calls |-> first, raised |-> TRUE ]
         ELSE LET rest == NotifyListeners(b, old_state, new_state)
              IN  [ calls |-> first \o rest.calls, raised |-> rest.raised ]
    ELSE NotifyListeners(b, old_state, new_state)

\* _transition_to(new_state) with its callbacks: the breaker afterwards, the
\* invocations and whether an exception leaves it. The fields are assigned
\* (lines 138-151) before the first callback is invoked
TransitionToNotify(b, new_state) ==
    IF b.state = new_state
    THEN [ cb |-> b, calls |-> << >>, raised |-> FALSE ]
    ELSE [ cb |-> TransitionTo(b, new_state) ] @@ Notify(b, b.state, new_state)

\* record_failure that counts every exception
RecordFailureUnfiltered(b, t, exception) ==
    LET b1 == [ b EXCEPT !.total_calls = @ + 1,
                         !.failed_calls = @ + 1,
                         !.failure_count = @ + 1,
                         !.last_failure_time = t ] IN
    IF b1.state = HALF_OPEN \/ (b1.state = CLOSED /\ b1.failure_count >= b1.failure_threshold)
    THEN TransitionToNotify(b1, OPEN)
    ELSE [ cb |-> b1, calls |-> << >>, raised |-> FALSE ]

\* CircuitBreaker.record_failure(exception)
RecordFailureFor(b, t, exception) ==
    IF /\ exception # NoException
       /\ \/ IsInstance(exception, b.excluded_exceptions)
          \/ ~IsInstance(exception, b.expected_exceptions)
    THEN [ cb |-> b, calls |-> << >>, raised |-> FALSE ]
    ELSE LET b1 == [ b EXCEPT !.total_calls = @ + 1,
                              !.failed_calls = @ + 1,
                              !.failure_count = @ + 1,
                              !.last_failure_time = t ] IN
         IF b1.state = HALF_OPEN
         THEN TransitionToNotify(b1, OPEN)
         ELSE IF b1.state = CLOSED /\ b1.failure_count >= b1.failure_threshold
              THEN TransitionToNotify(b1, OPEN)
              ELSE [ cb |-> b1, calls |-> << >>, raised |-> FALSE ]

\* CircuitBreaker.record_success with the callbacks of its transition
RecordSuccessNotify(b) ==
    LET b1 == [ b EXCEPT !.total_calls = @ + 1, !.successful_calls = @ + 1 ] IN
    IF b1.state = HALF_OPEN
    THEN LET b2 == [ b1 EXCEPT !.success_count = @ + 1 ] IN
         IF b2.success_count >= b2.success_threshold
         THEN TransitionToNotify(b2, CLOSED)
         ELSE [ cb |-> b2, calls |-> << >>, raised |-> FALSE ]
    ELSE [ cb |-> IF b1.state = CLOSED THEN [ b1 EXCEPT !.failure_count = 0 ] ELSE b1,
           calls |-> << >>, raised |-> FALSE ]

\* CircuitBreaker.allow_request with the callbacks of the transition is_open
\* makes: an exception leaving _transition_to leaves is_open and allow_request,
\* and nothing is returned
AllowRequestNotify(b, t) ==
    IF b.state = OPEN
    THEN IF ShouldAttemptRecovery(b, t)
         THEN TransitionToNotify(b, HALF_OPEN) @@ [ ret |-> TRUE ]
         ELSE [ cb |-> [ b EXCEPT !.rejected_calls = @ + 1 ], calls |-> << >>,
                raised |-> FALSE, ret |-> FALSE ]
    ELSE [ cb |-> b, calls |-> << >>, raised |-> FALSE, ret |-> TRUE ]

\* CircuitBreaker.reset with the callbacks of its transition: the three
\* assignments after _transition_to (lines 240-242) are not reached when an
\* exception leaves it
ResetNotify(b) ==
    LET r == TransitionToNotify(b, CLOSED) IN
    IF r.raised
    THEN r
    ELSE [ cb |-> [ r.cb EXCEPT !.failure_count = 0,
                                !.success_count = 0,
                                !.last_failure_time = None ],
           calls |-> r.calls, raised |-> FALSE ]

\* ------------------------------------------------------------------ cache

\* CacheEntry
NewCacheEntry(key, value, created_at, ttl) ==
    [ key           |-> key,
      value         |-> value,
      created_at    |-> created_at,
      ttl           |-> ttl,
      last_accessed |-> created_at ]

\* is_expired with > in place of >=: an entry whose age equals its ttl is kept
IsExpiredLate(e, t) ==
    IF e.ttl <= 0
    THEN FALSE
    ELSE (t - e.created_at) > e.ttl

\* CacheEntry.is_expired
IsExpired(e, t) ==
    IF e.ttl <= 0
    THEN FALSE
    ELSE (t - e.created_at) >= e.ttl

\* InMemoryCache.__init__; _cache is an OrderedDict: the entries in
\* insertion order, the least recently used first
NewInMemoryCache(ttl, max_size, namespace) ==
    [ default_ttl |-> ttl,
      max_size    |-> max_size,
      namespace   |-> namespace,
      entries     |-> << >>,
      stats       |-> [ hits |-> 0, misses |-> 0, sets |-> 0,
                        deletes |-> 0, evictions |-> 0 ] ]

\* InMemoryCache._make_key
MakeKey(c, key) ==
    IF c.namespace # ""
    THEN << c.namespace, ":", key >>
    ELSE << key >>

\* position of full_key in the OrderedDict, 0 when it is not a key
IndexOf(entries, full_key) ==
    IF \E i \in 1..Len(entries) : entries[i].key = full_key
    THEN CHOOSE i \in 1..Len(entries) : entries[i].key = full_key
    ELSE 0

\* del self._cache[key]
RemoveAt(entries, i) ==
    [ j \in 1..(Len(entries) - 1) |->
        IF j < i THEN entries[j] ELSE entries[j + 1] ]

\* InMemoryCache._evict_expired
EvictExpired(c, t) ==
    LET Fresh(e) == ~IsExpired(e, t)
        kept == SelectSeq(c.entries, Fresh)
    IN  [ c EXCEPT !.entries = kept,
                   !.stats.evictions = @ + (Len(c.entries) - Len(kept)) ]

\* _evict_lru with > in place of >=: no room is made for the entry to come
RECURSIVE EvictLruLate(_)
EvictLruLate(c) ==
    IF Len(c.entries) > c.max_size
    THEN EvictLruLate([ c EXCEPT !.entries = Tail(@),
                                 !.stats.evictions = @ + 1 ])
    ELSE c

\* InMemoryCache._evict_lru
RECURSIVE EvictLru(_)
EvictLru(c) ==
    IF Len(c.entries) >= c.max_size
    THEN EvictLru([ c EXCEPT !.entries = Tail(@),
                             !.stats.evictions = @ + 1 ])
    ELSE c

\* get without move_to_end: a hit leaves the entry where it was
CacheGetNoTouch(c, key, t) ==
    LET full_key == MakeKey(c, key)
        c1 == EvictExpired(c, t)
        i  == IndexOf(c1.entries, full_key)
    IN  IF i = 0
        THEN [ cache |-> [ c1 EXCEPT !.stats.misses = @ + 1 ], ret |-> None ]
        ELSE IF IsExpired(c1.entries[i], t)
             THEN [ cache |-> [ c1 EXCEPT !.entries = RemoveAt(@, i),
                                          !.stats.misses = @ + 1 ],
                    ret |-> None ]
             ELSE [ cache |-> [ c1 EXCEPT
                                  !.entries[i].last_accessed = t,
                                  !.stats.hits = @ + 1 ],
                    ret |-> c1.entries[i].value ]

\* InMemoryCache.get: the cache afterwards and the value returned
CacheGet(c, key, t) ==
    LET full_key == MakeKey(c, key)
        c1 == EvictExpired(c, t)
        i  == IndexOf(c1.entries, full_key)
    IN  IF i = 0
        THEN [ cache |-> [ c1 EXCEPT !.stats.misses = @ + 1 ], ret |-> None ]
        ELSE IF IsExpired(c1.entries[i], t)
             THEN [ cache |-> [ c1 EXCEPT !.entries = RemoveAt(@, i),
                                          !.stats.misses = @ + 1 ],
                    ret |-> None ]
             ELSE [ cache |-> [ c1 EXCEPT
                                  !.entries = Append(RemoveAt(@, i),
                                      [ c1.entries[i] EXCEPT !.last_accessed = t ]),
                                  !.stats.hits = @ + 1 ],
                    ret |-> c1.entries[i].value ]

\* InMemoryCache.set
CacheSet(c, key, value, ttl, t) ==
    LET full_key == MakeKey(c, key)
        effective_ttl == IF ttl # None THEN ttl ELSE c.default_ttl
        c1 == EvictLru(c)
        entry == NewCacheEntry(full_key, value, t, effective_ttl)
        i == IndexOf(c1.entries, full_key)
    IN  [ c1 EXCEPT
            !.entries = IF i = 0 THEN Append(@, entry)
                                 ELSE Append(RemoveAt(@, i), entry),
            !.stats.sets = @ + 1 ]

\* InMemoryCache.delete: the cache afterwards and the value returned
CacheDelete(c, key) ==
    LET full_key == MakeKey(c, key)
        i == IndexOf(c.entries, full_key)
    IN  IF i # 0
        THEN [ cache |-> [ c EXCEPT !.entries = RemoveAt(@, i),
                                    !.stats.deletes = @ + 1 ],
               ret |-> TRUE ]
        ELSE [ cache |-> c, ret |-> FALSE ]

\* InMemoryCache.clear
CacheClear(c) == [ c EXCEPT !.entries = << >> ]

\* InMemoryCache.exists: the cache afterwards and the value returned
CacheExists(c, key, t) ==
    LET full_key == MakeKey(c, key)
        i == IndexOf(c.entries, full_key)
    IN  IF i = 0
        THEN [ cache |-> c, ret |-> FALSE ]
        ELSE IF IsExpired(c.entries[i], t)
             THEN [ cache |-> [ c EXCEPT !.entries = RemoveAt(@, i) ],
                    ret |-> FALSE ]
             ELSE [ cache |-> c, ret |-> TRUE ]

\* InMemoryCache.size
Size(c) == Len(c.entries)

\* ------------------------------------------------------------------ retry

\* ExponentialBackoff(jitter=False): the client's backoff_strategy
NewExponentialBackoff(initial_delay, max_delay, multiplier) ==
    [ initial_delay |-> initial_delay,
      max_delay     |-> max_delay,
      multiplier    |-> multiplier,
      jitter        |-> FALSE,
      jitter_ratio  |-> 0 ]

\* jitter_range of calculate_delay: random.uniform draws from
\* [-jitter_range, jitter_range]
JitterRange(b, attempt) ==
    Min(b.initial_delay * Pow(b.multiplier, attempt - 1), b.max_delay)
        * b.jitter_ratio

\* calculate_delay without the exponent: the same delay at every attempt
CalculateDelayFlat(b, attempt, u) ==
    LET delay == Min(b.initial_delay, b.max_delay)
    IN  IF b.jitter THEN Max(0, delay + u) ELSE delay

\* ExponentialBackoff.calculate_delay; u is the value random.uniform draws
\* when jitter is on
CalculateDelay(b, attempt, u) ==
    LET delay == Min(b.initial_delay * Pow(b.multiplier, attempt - 1), b.max_delay)
    IN  IF b.jitter THEN Max(0, delay + u) ELSE delay

\* RetryConfig
NewRetryConfig(max_attempts, respect_retry_after, max_retry_after) ==
    [ max_attempts              |-> max_attempts,
      retry_on_status           |-> {429, 500, 502, 503, 504},
      respect_retry_after       |-> respect_retry_after,
      max_retry_after           |-> max_retry_after,
      retry_on_timeout          |-> TRUE,
      retry_on_connection_error |-> TRUE,
      idempotent_methods        |-> {"GET", "HEAD", "OPTIONS", "PUT", "DELETE"} ]

\* should_retry_on_status
ShouldRetryOnStatus(status_code, config) ==
    status_code \in config.retry_on_status

\* is_idempotent_method
IsIdempotentMethod(method, config) ==
    method \in config.idempotent_methods

\* A Retry-After header as the transport delivers it: absent, a number of
\* seconds, an HTTP date, or text that is neither.
RetryAfterAbsent == [ kind |-> "absent", value |-> 0 ]
RetryAfterSeconds(n) == [ kind |-> "seconds", value |-> n ]
RetryAfterDate(at) == [ kind |-> "date", value |-> at ]
RetryAfterInvalid == [ kind |-> "invalid", value |-> 0 ]

\* parse_retry_after
ParseRetryAfter(header_value, t) ==
    CASE header_value.kind = "absent"  -> None
      [] header_value.kind = "seconds" -> header_value.value
      [] header_value.kind = "date"    -> Max(0, header_value.value - t)
      [] OTHER                         -> None

\* the truth value Python gives an Optional[float]
Truthy(x) == x # None /\ x # 0

\* generate_cache_key(method, url, params, merged_headers): no params and
\* include_headers not given, so the key is the hash of "METHOD|url"
GenerateCacheKey(method, url) == << method, "|", url >>

\* ------------------------------------------------------------ middleware

\* a body of None
NoBody == "None"

\* RequestContext; headers is the dict, metadata the keys of the metadata dict
NewRequestContext(method, url, headers, body) ==
    [ method |-> method, url |-> url, headers |-> headers, body |-> body,
      metadata |-> {} ]

\* ResponseContext; metadata the keys of the metadata dict
NewResponseContext(status_code) ==
    [ status_code |-> status_code, metadata |-> {} ]

\* d[key] = value on a dict
DictSet(d, key, value) ==
    [ k \in DOMAIN d \cup {key} |-> IF k = key THEN value ELSE d[k] ]

\* the dict with no key
EmptyDict == [ k \in {} |-> "" ]

\* The middleware classes of the library, and three subclasses of Middleware as
\* a caller may write them: one that replaces the body in the pre-phase, one
\* whose process_request raises, one whose process_response raises.
LibraryMiddleware == { "TimingMiddleware", "UserAgentMiddleware",
                       "ContentTypeMiddleware", "LoggingMiddleware",
                       "HeaderMiddleware", "RetryMetadataMiddleware" }
CallerMiddleware == { "BodyMiddleware", "RejectingMiddleware", "FailingMiddleware" }

\* <class>.process_request(context): the context returned, or raised
MwProcessRequest(mw, context) ==
    CASE mw = "TimingMiddleware" ->
           [ context |-> [ context EXCEPT !.metadata = @ \cup {"timing_start"} ],
             raised |-> FALSE ]
      [] mw = "UserAgentMiddleware" ->
           [ context |-> IF "User-Agent" \in DOMAIN context.headers
                         THEN context
                         ELSE [ context EXCEPT !.headers =
                                  DictSet(@, "User-Agent", "RateWise/1.0") ],
             raised |-> FALSE ]
      [] mw = "ContentTypeMiddleware" ->
           [ context |-> IF context.body # NoBody
                            /\ "Content-Type" \notin DOMAIN context.headers
                         THEN [ context EXCEPT !.headers =
                                  DictSet(@, "Content-Type", "application/json") ]
                         ELSE context,
             raised |-> FALSE ]
      [] mw = "HeaderMiddleware" ->      \* HeaderMiddleware({"X-Env": "prod"})
           [ context |-> IF "X-Env" \in DOMAIN context.headers
                         THEN context
                         ELSE [ context EXCEPT !.headers = DictSet(@, "X-Env", "prod") ],
             raised |-> FALSE ]
      [] mw = "RetryMetadataMiddleware" ->
           [ context |-> [ context EXCEPT !.metadata = @ \cup {"retry_count"} ],
             raised |-> FALSE ]
      [] mw = "BodyMiddleware" ->        \* context.body = "signed"; return context
           [ context |-> [ context EXCEPT !.body = "signed" ], raised |-> FALSE ]
      [] mw = "RejectingMiddleware" ->   \* raise
           [ context |-> context, raised |-> TRUE ]
      [] OTHER -> [ context |-> context, raised |-> FALSE ]

\* <class>.process_response(request, response): the response returned, or raised
MwProcessResponse(mw, request, response) ==
    CASE mw = "RetryMetadataMiddleware" ->
           [ response |-> [ response EXCEPT !.metadata = @ \cup {"retry_count"} ],
             raised |-> FALSE ]
      [] mw = "ContentTypeMiddleware" ->
           [ response |-> [ response EXCEPT !.metadata =
                              @ \cup {"content_type", "is_json"} ],
             raised |-> FALSE ]
      [] mw = "FailingMiddleware" ->     \* raise
           [ response |-> response, raised |-> TRUE ]
      [] OTHER -> [ response |-> response, raised |-> FALSE ]

\* reversed(self._middleware) replaced by self._middleware
ReversedNot(s) == s

\* reversed(self._middleware)
Reversed(s) == [ i \in 1..Len(s) |-> s[Len(s) + 1 - i] ]

\* a process_request loop that catches what a middleware raises and goes on
\* with the context it had
RECURSIVE RunRequestGuarded(_, _, _)
RunRequestGuarded(mws, context, calls) ==
    IF mws = << >>
    THEN [ context |-> context, raised |-> FALSE, calls |-> calls ]
    ELSE LET r == MwProcessRequest(Head(mws), context)
             made == Append(calls, [ mw |-> Head(mws), given |-> context ])
         IN  RunRequestGuarded(Tail(mws), IF r.raised THEN context ELSE r.context,
                               made)

\* the loop of MiddlewareChain.process_request over the middleware left;
\* calls lists, for each call made, the middleware and the context it was given
RECURSIVE RunRequest(_, _, _)
RunRequest(mws, context, calls) ==
    IF mws = << >>
    THEN [ context |-> context, raised |-> FALSE, calls |-> calls ]
    ELSE LET r == MwProcessRequest(Head(mws), context)
             made == Append(calls, [ mw |-> Head(mws), given |-> context ])
         IN  IF r.raised
             THEN [ context |-> context, raised |-> TRUE, calls |-> made ]
             ELSE RunRequest(Tail(mws), r.context, made)

\* the loop of MiddlewareChain.process_response over the middleware left
RECURSIVE RunResponse(_, _, _, _)
RunResponse(mws, request, response, calls) ==
    IF mws = << >>
    THEN [ response |-> response, raised |-> FALSE, calls |-> calls ]
    ELSE LET r == MwProcessResponse(Head(mws), request, response)
             made == Append(calls, [ mw |-> Head(mws), given |-> response ])
         IN  IF r.raised
             THEN [ response |-> response, raised |-> TRUE, calls |-> made ]
             ELSE RunResponse(Tail(mws), request, r.response, made)

\* MiddlewareChain.process_request
ChainProcessRequest(chain, context) == RunRequest(chain, context, << >>)

\* MiddlewareChain.process_response
ChainProcessResponse(chain, request, response) ==
    RunResponse(Reversed(chain), request, response, << >>)

\* MiddlewareChain.process_error: the calls made; process_error returns nothing
\* and none of these classes raises in it
ChainProcessError(chain, request, error) ==
    [ i \in 1..Len(chain) |-> [ mw |-> Reversed(chain)[i], given |-> error ] ]

\* MiddlewareChain.add
ChainAdd(chain, mw) == Append(chain, mw)

\* MiddlewareChain.remove: list.remove takes out the first equal element
ChainRemove(chain, mw) ==
    IF \E i \in 1..Len(chain) : chain[i] = mw
    THEN LET i == CHOOSE j \in 1..Len(chain) :
                      chain[j] = mw /\ \A k \in 1..(j - 1) : chain[k] # mw
         IN  [ chain |-> SubSeq(chain, 1, i - 1) \o SubSeq(chain, i + 1, Len(chain)),
               ret |-> TRUE ]
    ELSE [ chain |-> chain, ret |-> FALSE ]

\* create_default_middleware_chain
CreateDefaultMiddlewareChain ==
    << "TimingMiddleware", "UserAgentMiddleware", "ContentTypeMiddleware",
       "LoggingMiddleware" >>

\* --------------------------------------------------------------- pipeline

\* ClientStats()
NewClientStats ==
    [ total_requests        |-> 0,
      successful_requests   |-> 0,
      failed_requests       |-> 0,
      total_retries         |-> 0,
      cache_hits            |-> 0,
      cache_misses          |-> 0,
      circuit_breaker_trips |-> 0 ]

\* How a _make_request call ends: a response returned (value is the response
\* object) or an exception raised (kind is its class).
NoResult ==
    [ kind |-> "none", value |-> None, status_code |-> None,
      attempts |-> None, cause |-> "", url |-> "", method |-> "" ]
Returned(response) ==
    [ NoResult EXCEPT !.kind = "response", !.value = response.id,
                      !.status_code = response.status_code ]
Raised(kind, status_code, attempts, cause) ==
    [ NoResult EXCEPT !.kind = kind, !.status_code = status_code,
                      !.attempts = attempts, !.cause = cause ]
\* TimeoutError, ConnectionError and RequestError carry url, method and cause
RaisedFor(kind, c, cause) ==
    [ NoResult EXCEPT !.kind = kind, !.url = c.url, !.method = c.method,
                      !.cause = cause ]

\* The objects a _make_request call mutates, as one value.
ClientState ==
    [ cb |-> cb, stats |-> stats, retry_count |-> retry_count,
      retry_delays |-> retry_delays, cache |-> cache ]

\* What one pass through the try block leaves: the objects, where control
\* goes ("sleep", "return" or "raise"), the delay to sleep and the outcome.
Sleep(s, delay)  == [ s |-> s, ctl |-> "sleep", delay |-> delay, result |-> NoResult ]
Return(s, res)   == [ s |-> s, ctl |-> "return", delay |-> 0, result |-> res ]
Raise(s, res)    == [ s |-> s, ctl |-> "raise", delay |-> 0, result |-> res ]

\* except Exception as e: every exception raised inside the try block that is
\* neither httpx.TimeoutException nor httpx.ConnectError lands here
ExceptException(s, c, e, t) ==
    Raise([ s EXCEPT !.cb = RecordFailure(@, t),
                     !.stats.failed_requests = @ + 1 ],
          RaisedFor("RequestError", c, e))

\* a sleep interrupted by an exception handled as every exception raised in
\* the try body is: by `except Exception`
SleepInterruptedCaught(s, c, outcome, kind, t) ==
    ExceptException(s, c, kind, t)

\* the sleep before a retry raises an exception of class kind (a
\* KeyboardInterrupt out of time.sleep, an asyncio.CancelledError out of
\* asyncio.sleep). After a response the sleep stands in the try body and the
\* except clauses are tried on the exception; after a timeout or a connection
\* error it stands inside that except clause, and the exception leaves the try
\* statement whatever its class
SleepInterrupted(s, c, outcome, kind, t) ==
    IF outcome.kind = "response" /\ IsInstance(kind, {"Exception"})
    THEN ExceptException(s, c, kind, t)
    ELSE Raise(s, Raised(kind, None, None, ""))

\* the delay of the 429 branch
RateLimitDelay(config, b, attempt, retry_after, u) ==
    LET delay == IF Truthy(retry_after)
                 THEN retry_after
                 ELSE CalculateDelay(b, attempt, u)
    IN  IF config.respect_retry_after /\ Truthy(retry_after)
        THEN Min(delay, config.max_retry_after)
        ELSE delay

\* if response.status_code == 429
OnRateLimit(s, config, b, c, response, t, u) ==
    LET attempt == c.attempt
        retry_after == ParseRetryAfter(response.retry_after, t)
        delay == RateLimitDelay(config, b, attempt, retry_after, u)
        s1 == [ s EXCEPT !.retry_count = @ + 1,
                         !.retry_delays = Append(@, delay),
                         !.stats.total_retries = @ + 1 ]
    IN  IF attempt >= config.max_attempts
        THEN ExceptException([ s1 EXCEPT !.cb = RecordFailure(@, t) ], c,
                             "RateLimitExceeded", t)
        ELSE Sleep(s1, delay)

\* if should_retry_on_status(response.status_code, self.retry_config)
OnRetryableStatus(s, config, b, c, response, t, u) ==
    IF ~IsIdempotentMethod(c.method, config)
    THEN ExceptException([ s EXCEPT !.cb = RecordFailure(@, t) ], c,
                         "ServerError", t)
    ELSE LET attempt == c.attempt
             delay == CalculateDelay(b, attempt, u)
             s1 == [ s EXCEPT !.retry_count = @ + 1,
                              !.retry_delays = Append(@, delay),
                              !.stats.total_retries = @ + 1 ]
         IN  IF attempt >= config.max_attempts
             THEN ExceptException([ s1 EXCEPT !.cb = RecordFailure(@, t) ], c,
                                  "ServerError", t)
             ELSE Sleep(s1, delay)

\* the rest of the try block with a cache store that does not look at the
\* status
OnResponseStoringAll(s, method, url, use_cache, response, t) ==
    LET s1 == [ s EXCEPT !.cb = RecordSuccess(@),
                         !.stats.successful_requests = @ + 1 ]
        s2 == IF use_cache /\ method = "GET"
              THEN [ s1 EXCEPT !.cache =
                        CacheSet(@, GenerateCacheKey(method, url), response.id, None, t) ]
              ELSE s1
    IN  Return(s2, Returned(response))

\* the rest of the try block: record_success, post-phase, cache store, return
OnResponse(s, method, url, use_cache, response, t) ==
    LET s1 == [ s EXCEPT !.cb = RecordSuccess(@),
                         !.stats.successful_requests = @ + 1 ]
        s2 == IF use_cache /\ method = "GET"
                 /\ 200 <= response.status_code /\ response.status_code < 300
              THEN [ s1 EXCEPT !.cache =
                        CacheSet(@, GenerateCacheKey(method, url), response.id, None, t) ]
              ELSE s1
    IN  Return(s2, Returned(response))

\* a timeout handler that records the breaker failure only when it gives up
OnTimeoutLenient(s, config, b, c, t, u) ==
    IF config.retry_on_timeout /\ c.attempt < config.max_attempts
    THEN LET delay == CalculateDelay(b, c.attempt, u)
         IN  Sleep([ s EXCEPT !.stats.failed_requests = @ + 1,
                              !.retry_delays = Append(@, delay),
                              !.stats.total_retries = @ + 1 ], delay)
    ELSE Raise([ s EXCEPT !.cb = RecordFailure(@, t),
                          !.stats.failed_requests = @ + 1 ],
               RaisedFor("TimeoutError", c, "TimeoutException"))

\* except httpx.TimeoutException
OnTimeout(s, config, b, c, t, u) ==
    LET attempt == c.attempt
        s1 == [ s EXCEPT !.cb = RecordFailure(@, t),
                         !.stats.failed_requests = @ + 1 ]
    IN  IF config.retry_on_timeout /\ attempt < config.max_attempts
        THEN LET delay == CalculateDelay(b, attempt, u)
             IN  Sleep([ s1 EXCEPT !.retry_delays = Append(@, delay),
                                   !.stats.total_retries = @ + 1 ], delay)
        ELSE Raise(s1, RaisedFor("TimeoutError", c, "TimeoutException"))

\* a connection-error handler that retries without looking at the attempt
\* number
OnConnectErrorAlways(s, config, b, c, t, u) ==
    LET s1 == [ s EXCEPT !.cb = RecordFailure(@, t),
                         !.stats.failed_requests = @ + 1 ]
    IN  IF config.retry_on_connection_error
        THEN LET delay == CalculateDelay(b, c.attempt, u)
             IN  Sleep([ s1 EXCEPT !.retry_delays = Append(@, delay),
                                   !.stats.total_retries = @ + 1 ], delay)
        ELSE Raise(s1, RaisedFor("ConnectionError", c, "ConnectError"))

\* except httpx.ConnectError
OnConnectError(s, config, b, c, t, u) ==
    LET attempt == c.attempt
        s1 == [ s EXCEPT !.cb = RecordFailure(@, t),
                         !.stats.failed_requests = @ + 1 ]
    IN  IF config.retry_on_connection_error /\ attempt < config.max_attempts
        THEN LET delay == CalculateDelay(b, attempt, u)
             IN  Sleep([ s1 EXCEPT !.retry_delays = Append(@, delay),
                                   !.stats.total_retries = @ + 1 ], delay)
        ELSE Raise(s1, RaisedFor("ConnectionError", c, "ConnectError"))

\* the body of the try statement for one transport outcome
Attempt(s, config, b, c, outcome, t, u) ==
    CASE outcome.kind = "response" ->
           IF outcome.status_code = 429
           THEN OnRateLimit(s, config, b, c, outcome, t, u)
           ELSE IF ShouldRetryOnStatus(outcome.status_code, config)
                THEN OnRetryableStatus(s, config, b, c, outcome, t, u)
                ELSE OnResponse(s, c.method, c.url, c.use_cache, outcome, t)
      [] outcome.kind = "timeout" -> OnTimeout(s, config, b, c, t, u)
      [] outcome.kind = "connect_error" -> OnConnectError(s, config, b, c, t, u)
      [] OTHER -> ExceptException(s, c, "Exception", t)

\* ------------------------------------------------------- the async client

\* AsyncRateWiseClient._make_request: the delay of the 429 branch
AsyncRateLimitDelay(config, b, attempt, retry_after, u) ==
    IF Truthy(retry_after)
    THEN retry_after
    ELSE CalculateDelay(b, attempt, u)

\* AsyncRateWiseClient._make_request: if response.status_code == 429
AsyncOnRateLimit(s, config, b, c, response, t, u) ==
    LET attempt == c.attempt
        retry_after == ParseRetryAfter(response.retry_after, t)
        delay == AsyncRateLimitDelay(config, b, attempt, retry_after, u)
        s1 == [ s EXCEPT !.retry_count = @ + 1,
                         !.retry_delays = Append(@, delay),
                         !.stats.total_retries = @ + 1 ]
    IN  IF attempt >= config.max_attempts
        THEN ExceptException([ s1 EXCEPT !.cb = RecordFailure(@, t) ], c,
                             "RateLimitExceeded", t)
        ELSE Sleep(s1, delay)

\* AsyncRateWiseClient._make_request: the body of the try statement for one
\* transport outcome; but for the 429 branch its statements are those of the
\* blocking client, with await asyncio.sleep for time.sleep
AsyncAttempt(s, config, b, c, outcome, t, u) ==
    CASE outcome.kind = "response" ->
           IF outcome.status_code = 429
           THEN AsyncOnRateLimit(s, config, b, c, outcome, t, u)
           ELSE IF ShouldRetryOnStatus(outcome.status_code, config)
                THEN OnRetryableStatus(s, config, b, c, outcome, t, u)
                ELSE OnResponse(s, c.method, c.url, c.use_cache, outcome, t)
      [] outcome.kind = "timeout" -> OnTimeout(s, config, b, c, t, u)
      [] outcome.kind = "connect_error" -> OnConnectError(s, config, b, c, t, u)
      [] OTHER -> ExceptException(s, c, "Exception", t)

\* ------------------------------------------------------- the client's run

Methods == {"GET", "POST"}
Urls == {"/u"}

\* the Retry-After headers a 429 response may carry
RetryAfterHeaders ==
    { RetryAfterAbsent }
      \cup { RetryAfterSeconds(n) : n \in {0, 2, MaxRetryAfter + 1} }

\* what the transport may do with the request it was handed: answer with
\* response object number id, or raise
Outcomes(id) ==
    { [ kind |-> "response", id |-> id, status_code |-> sc,
        retry_after |-> RetryAfterAbsent ] : sc \in {200, 404, 500} }
      \cup { [ kind |-> "response", id |-> id, status_code |-> 429,
               retry_after |-> h ] : h \in RetryAfterHeaders }
      \cup { [ kind |-> k, id |-> id, status_code |-> None,
               retry_after |-> RetryAfterAbsent ]
             : k \in {"timeout", "connect_error", "error"} }

\* a cache hit that is also counted as a request
CacheHitStatsCounting(st) ==
    [ st EXCEPT !.cache_hits = @ + 1, !.total_requests = @ + 1 ]

\* the cache-hit branch: self._stats.cache_hits += 1
CacheHitStats(st) == [ st EXCEPT !.cache_hits = @ + 1 ]

\* the locals of _make_request
NewCall(method, url, use_cache) ==
    [ method |-> method, url |-> url, use_cache |-> use_cache,
      attempt |-> 0, delay |-> 0 ]

\* the breaker, stats and transport count as an attempt found them, and the
\* breaker as allow_request left it
NoGate ==
    [ attempt |-> 0, now |-> 0, cb |-> NewCircuitBreaker(1, 1, 0),
      allowed |-> NewCircuitBreaker(1, 1, 0),
      stats |-> NewClientStats, transport_calls |-> 0 ]

NewHist ==
    [ ncalls          |-> 0,       \* _make_request calls begun
      transport_calls |-> 0,       \* requests handed to the transport
      outcomes        |-> << >>,   \* transport outcomes of the current call
      slept           |-> << >>,   \* time.sleep arguments of the current call
      pre             |-> [ valid |-> FALSE ],  \* the client as the call found it
      gate            |-> NoGate ]

InitClient ==
    /\ now = 0
    /\ cb = NewCircuitBreaker(MaxThreshold, 1, RecoveryTimeout)
    /\ cache = NewInMemoryCache(DefaultTtl, MaxSize, "")
    /\ stats = NewClientStats
    /\ retry_count = 0
    /\ retry_delays = << >>
    /\ \E rra \in BOOLEAN :
          retry_config = NewRetryConfig(MaxAttempts, rra, MaxRetryAfter)
    /\ backoff = NewExponentialBackoff(InitialDelay, MaxDelay, Multiplier)
    /\ middleware = CreateDefaultMiddlewareChain
    /\ pc = "idle"
    /\ call = NewCall("", "", FALSE)
    /\ result = NoResult
    /\ hist = NewHist
    /\ op = [ name |-> "init" ]

\* _make_request up to the attempt loop: the cache lookup, the request
\* context, the pre-phase and the reset of the per-call retry fields
Execute(method, url, use_cache) ==
    /\ pc = "idle"
    /\ hist.ncalls < MaxCalls
    /\ LET pre == [ valid |-> TRUE, method |-> method, url |-> url,
                    use_cache |-> use_cache, now |-> now, stats |-> stats,
                    cb |-> cb, cache |-> cache,
                    transport_calls |-> hist.transport_calls ]
           h == [ hist EXCEPT !.ncalls = @ + 1, !.outcomes = << >>,
                              !.slept = << >>, !.pre = pre, !.gate = NoGate ]
           lookup == use_cache /\ method = "GET"
           got == CacheGet(cache, GenerateCacheKey(method, url), now)
       IN  /\ hist' = h
           /\ IF lookup /\ got.ret # None
              THEN /\ cache' = got.cache
                   /\ stats' = CacheHitStats(stats)
                   /\ result' = [ NoResult EXCEPT !.kind = "response",
                                                  !.value = got.ret ]
                   /\ pc' = "idle"
                   /\ UNCHANGED << retry_count, retry_delays, call >>
              ELSE /\ cache' = IF lookup THEN got.cache ELSE cache
                   /\ stats' = IF lookup
                               THEN [ stats EXCEPT !.cache_misses = @ + 1 ]
                               ELSE stats
                   /\ result' = NoResult
                   /\ call' = NewCall(method, url, use_cache)
                   /\ retry_count' = 0
                   /\ retry_delays' = << >>
                   /\ pc' = "gate"
    /\ op' = [ name |-> "execute" ]
    /\ UNCHANGED << now, cb, retry_config, backoff, middleware >>

\* the head of the attempt loop: count the attempt, ask the breaker, hand the
\* request to the transport; after the loop, the defensive RequestError
Gate ==
    /\ pc = "gate"
    /\ hist.transport_calls < MaxTransport
    /\ IF call.attempt < retry_config.max_attempts
       THEN LET a == AllowRequest(cb, now)
                st == [ stats EXCEPT !.total_requests = @ + 1 ]
            IN  /\ call' = [ call EXCEPT !.attempt = @ + 1 ]
                /\ cb' = a.cb
                /\ hist' = [ hist EXCEPT
                       !.gate = [ attempt |-> call.attempt + 1, now |-> now,
                                  cb |-> cb, allowed |-> a.cb, stats |-> stats,
                                  transport_calls |-> hist.transport_calls ],
                       !.transport_calls = IF a.ret THEN @ + 1 ELSE @ ]
                /\ IF a.ret
                   THEN /\ stats' = st
                        /\ pc' = "transport"
                        /\ UNCHANGED result
                   ELSE /\ stats' = [ st EXCEPT !.circuit_breaker_trips = @ + 1 ]
                        /\ pc' = "idle"
                        /\ result' = Raised("CircuitBreakerOpen", None, None, "")
       ELSE /\ pc' = "idle"
            /\ result' = RaisedFor("RequestError", call, "")
            /\ UNCHANGED << call, cb, hist, stats >>
    /\ op' = [ name |-> "gate" ]
    /\ UNCHANGED << now, cache, retry_count, retry_delays, retry_config, backoff,
                    middleware >>

\* the transport answers or raises, and the try statement deals with it
Respond(outcome) ==
    /\ pc = "transport"
    /\ LET r == Attempt(ClientState, retry_config, backoff, call, outcome, now, 0)
       IN  /\ cb' = r.s.cb
           /\ stats' = r.s.stats
           /\ retry_count' = r.s.retry_count
           /\ retry_delays' = r.s.retry_delays
           /\ cache' = r.s.cache
           /\ result' = r.result
           /\ call' = [ call EXCEPT !.delay = r.delay ]
           /\ pc' = IF r.ctl = "sleep" THEN "sleep" ELSE "idle"
           /\ hist' = [ hist EXCEPT
                  !.outcomes = Append(@, outcome),
                  !.slept = IF r.ctl = "sleep" THEN Append(@, r.delay) ELSE @ ]
    /\ op' = [ name |-> "respond" ]
    /\ UNCHANGED << now, retry_config, backoff, middleware >>

\* time.sleep(delay) returns
Wake ==
    /\ pc = "sleep"
    /\ now + call.delay <= MaxTime
    /\ now' = now + call.delay
    /\ pc' = "gate"
    /\ op' = [ name |-> "wake" ]
    /\ UNCHANGED << cb, cache, stats, retry_count, retry_delays, retry_config,
                    backoff, middleware, call, result, hist >>

\* time passes between calls (within a call it passes in time.sleep)
Tick ==
    /\ pc = "idle"
    /\ now < MaxTime
    /\ now' = now + 1
    /\ op' = [ name |-> "tick" ]
    /\ UNCHANGED << cb, cache, stats, retry_count, retry_delays, retry_config,
                    backoff, middleware, pc, call, result, hist >>

Next ==
    \/ \E m \in Methods, u \in Urls, uc \in BOOLEAN : Execute(m, u, uc)
    \/ Gate
    \/ \E o \in Outcomes(hist.transport_calls) : Respond(o)
    \/ Wake
    \/ Tick

Spec == InitClient /\ [][Next]_vars

\* ------------------------------------------- a call cancelled in its sleep

\* the exceptions a cancellation raises out of the sleep
CancellationKinds == {"KeyboardInterrupt", "CancelledError"}

\* the cancellation arrives while the call sleeps before its next attempt
Cancel(kind) ==
    /\ pc = "sleep"
    /\ LET outcome == hist.outcomes[Len(hist.outcomes)]
           r == SleepInterrupted(ClientState, call, outcome, kind, now)
       IN  /\ cb' = r.s.cb
           /\ stats' = r.s.stats
           /\ retry_count' = r.s.retry_count
           /\ retry_delays' = r.s.retry_delays
           /\ cache' = r.s.cache
           /\ result' = r.result
           /\ pc' = "idle"
    /\ op' = [ name |-> "cancel", kind |-> kind, cb |-> cb, stats |-> stats ]
    /\ UNCHANGED << now, retry_config, backoff, middleware, call, hist >>

NextCancel ==
    \/ \E m \in Methods, u \in Urls, uc \in BOOLEAN : Execute(m, u, uc)
    \/ Gate
    \/ \E o \in Outcomes(hist.transport_calls) : Respond(o)
    \/ Wake
    \/ \E kind \in CancellationKinds : Cancel(kind)
    \/ Tick

\* a client with either setting of respect_retry_after; hist.ncalls starts
\* one short of MaxCalls, so a single _make_request call is followed
InitCancel ==
    /\ now = 0
    /\ cb = NewCircuitBreaker(MaxThreshold, 1, RecoveryTimeout)
    /\ cache = NewInMemoryCache(DefaultTtl, MaxSize, "")
    /\ stats = NewClientStats
    /\ retry_count = 0
    /\ retry_delays = << >>
    /\ \E rra \in BOOLEAN :
          retry_config = NewRetryConfig(MaxAttempts, rra, MaxRetryAfter)
    /\ backoff = NewExponentialBackoff(InitialDelay, MaxDelay, Multiplier)
    /\ middleware = CreateDefaultMiddlewareChain
    /\ pc = "idle"
    /\ call = NewCall("", "", FALSE)
    /\ result = NoResult
    /\ hist = [ NewHist EXCEPT !.ncalls = MaxCalls - 1 ]
    /\ op = [ name |-> "init" ]

SpecCancel == InitCancel /\ [][NextCancel]_vars

\* ------------------------------------- one call under every retry policy

PolicyMethods == {"GET", "POST", "PATCH"}

\* choices of RetryConfig.retry_on_status: the default, one without 429, one
\* without the 5xx statuses
RetryStatusSets ==
    { {429, 500, 502, 503, 504}, {500, 502, 503, 504}, {429} }

PolicyStatuses == {200, 400, 401, 403, 404, 429, 500}

PolicyOutcomes(id) ==
    { [ kind |-> "response", id |-> id, status_code |-> sc,
        retry_after |-> RetryAfterAbsent ] : sc \in PolicyStatuses }
      \cup { [ kind |-> k, id |-> id, status_code |-> None,
               retry_after |-> RetryAfterAbsent ]
             : k \in {"timeout", "connect_error", "error"} }

\* a client built with any of the retry policies; hist.ncalls starts one short
\* of MaxCalls, so a single _make_request call is followed
InitPolicy ==
    /\ now = 0
    /\ cb = NewCircuitBreaker(MaxThreshold, 1, RecoveryTimeout)
    /\ cache = NewInMemoryCache(DefaultTtl, MaxSize, "")
    /\ stats = NewClientStats
    /\ retry_count = 0
    /\ retry_delays = << >>
    /\ \E ros \in RetryStatusSets, rot \in BOOLEAN, roc \in BOOLEAN :
          retry_config = [ NewRetryConfig(MaxAttempts, TRUE, MaxRetryAfter) EXCEPT
                             !.retry_on_status = ros,
                             !.retry_on_timeout = rot,
                             !.retry_on_connection_error = roc ]
    /\ backoff = NewExponentialBackoff(InitialDelay, MaxDelay, Multiplier)
    /\ middleware = CreateDefaultMiddlewareChain
    /\ pc = "idle"
    /\ call = NewCall("", "", FALSE)
    /\ result = NoResult
    /\ hist = [ NewHist EXCEPT !.ncalls = MaxCalls - 1 ]
    /\ op = [ name |-> "init" ]

NextPolicy ==
    \/ \E m \in PolicyMethods, u \in Urls, uc \in BOOLEAN : Execute(m, u, uc)
    \/ Gate
    \/ \E o \in PolicyOutcomes(hist.transport_calls) : Respond(o)
    \/ Wake
    \/ Tick

SpecPolicy == InitPolicy /\ [][NextPolicy]_vars

\* ------------------------------------------- calculate_delay on its own

\* any backoff descriptor with 0 <= initial_delay <= max_delay and
\* 0 <= jitter_ratio; jitter_ratio takes whole values, so that jitter_range is
\* a whole number of clock units
InitBackoff ==
    /\ now = 0
    /\ cb = NewCircuitBreaker(MaxThreshold, 1, RecoveryTimeout)
    /\ cache = NewInMemoryCache(DefaultTtl, MaxSize, "")
    /\ stats = NewClientStats
    /\ retry_count = 0
    /\ retry_delays = << >>
    /\ retry_config = NewRetryConfig(MaxAttempts, TRUE, MaxRetryAfter)
    /\ \E max_delay \in 0..MaxDelay, initial_delay \in 0..MaxDelay,
          multiplier \in 1..Multiplier, jitter \in BOOLEAN,
          jitter_ratio \in 0..MaxJitterRatio :
          /\ initial_delay <= max_delay
          /\ backoff = [ NewExponentialBackoff(initial_delay, max_delay, multiplier)
                           EXCEPT !.jitter = jitter, !.jitter_ratio = jitter_ratio ]
    /\ middleware = CreateDefaultMiddlewareChain
    /\ pc = "idle"
    /\ call = NewCall("", "", FALSE)
    /\ result = NoResult
    /\ hist = NewHist
    /\ op = [ name |-> "init", attempt |-> 0, u |-> 0, ret |-> None ]

\* backoff.calculate_delay(attempt), random.uniform drawing u
DoCalculateDelay(attempt, u) ==
    /\ op' = [ name |-> "calculate_delay", attempt |-> attempt, u |-> u,
               ret |-> CalculateDelay(backoff, attempt, u) ]
    /\ UNCHANGED << now, cb, cache, stats, retry_count, retry_delays,
                    retry_config, backoff, middleware, pc, call, result, hist >>

NextBackoff ==
    \E attempt \in 1..(MaxAttempts + 1) :
        \E u \in (0 - JitterRange(backoff, attempt))..JitterRange(backoff, attempt) :
            DoCalculateDelay(attempt, u)

SpecBackoff == InitBackoff /\ [][NextBackoff]_vars

\* ------------------------------------------------ create_retry_decorator

\* RetryConfig with the fields get_backoff reads
DecoratorConfig(max_attempts, initial_delay, max_delay, jitter, jitter_ratio) ==
    NewRetryConfig(max_attempts, TRUE, MaxRetryAfter)
        @@ [ initial_delay |-> initial_delay, max_delay |-> max_delay,
             jitter |-> jitter, jitter_ratio |-> jitter_ratio ]

\* RetryConfig.get_backoff: the multiplier is the default of ExponentialBackoff
GetBackoff(config) ==
    [ NewExponentialBackoff(config.initial_delay, config.max_delay, Multiplier)
        EXCEPT !.jitter = config.jitter, !.jitter_ratio = config.jitter_ratio ]

\* what the wrapped function may do when invoked: return result number id,
\* or raise exception number id of some class
FuncOutcomes(id) ==
    { [ kind |-> "return", id |-> id, exception |-> NoException ] }
      \cup { [ kind |-> "raise", id |-> id, exception |-> e ]
             : e \in {"ValueError", "KeyboardInterrupt"} }

\* the wrapper returns the result of func
WrapperReturned(outcome) ==
    [ NoResult EXCEPT !.kind = "returned", !.value = outcome.id ]

\* an exception of func leaves the wrapper
WrapperRaised(outcome) ==
    [ NoResult EXCEPT !.kind = "raised", !.value = outcome.id,
                      !.cause = outcome.exception ]

\* the give-up test made only after the last attempt has been exceeded
GiveUpLate(config, attempt) == attempt > config.max_attempts

\* the give-up test of the except clause
GiveUp(config, attempt) == attempt >= config.max_attempts

\* a wrapper built from any config with max_attempts >= 1 and
\* 0 <= initial_delay <= max_delay; hist.ncalls starts two short of MaxCalls,
\* so two calls of the wrapper are followed
InitDecorator ==
    /\ now = 0
    /\ cb = NewCircuitBreaker(MaxThreshold, 1, RecoveryTimeout)
    /\ cache = NewInMemoryCache(DefaultTtl, MaxSize, "")
    /\ stats = NewClientStats
    /\ retry_count = 0
    /\ retry_delays = << >>
    /\ \E max_attempts \in 1..MaxAttempts, max_delay \in {1, MaxDelay},
          initial_delay \in {0, InitialDelay}, jitter \in BOOLEAN,
          jitter_ratio \in {0, MaxJitterRatio} :
          retry_config = DecoratorConfig(max_attempts, initial_delay, max_delay,
                                         jitter, jitter_ratio)
    /\ backoff = GetBackoff(retry_config)
    /\ middleware = CreateDefaultMiddlewareChain
    /\ pc = "idle"
    /\ call = NewCall("", "", FALSE)
    /\ result = NoResult
    /\ hist = [ NewHist EXCEPT !.ncalls = MaxCalls - 2 ]
    /\ op = [ name |-> "init" ]

\* wrapper(*args, **kwargs) is called: attempt = 0
WrapperCall ==
    /\ pc = "idle"
    /\ hist.ncalls < MaxCalls
    /\ pc' = "invoke"
    /\ call' = NewCall("", "", FALSE)
    /\ result' = NoResult
    /\ hist' = [ hist EXCEPT !.ncalls = @ + 1, !.outcomes = << >>, !.slept = << >> ]
    /\ op' = [ name |-> "call" ]
    /\ UNCHANGED << now, cb, cache, stats, retry_count, retry_delays,
                    retry_config, backoff, middleware >>

\* one pass of the loop body up to the sleep: attempt += 1, func is invoked
\* and returns or raises; random.uniform draws u when jitter is on
Invoke(outcome, u) ==
    /\ pc = "invoke"
    /\ LET attempt == call.attempt + 1 IN
       /\ hist' = [ hist EXCEPT !.transport_calls = @ + 1,
                                !.outcomes = Append(@, outcome) ]
       /\ IF outcome.kind = "return"
          THEN /\ result' = WrapperReturned(outcome)
               /\ call' = [ call EXCEPT !.attempt = attempt ]
               /\ pc' = "idle"
          ELSE IF ~IsInstance(outcome.exception, {"Exception"})
                  \/ GiveUp(retry_config, attempt)
          THEN /\ result' = WrapperRaised(outcome)
               /\ call' = [ call EXCEPT !.attempt = attempt ]
               /\ pc' = "idle"
          ELSE /\ result' = result
               /\ call' = [ call EXCEPT
                              !.attempt = attempt,
                              !.delay = CalculateDelay(backoff, attempt, u) ]
               /\ pc' = "sleep"
    /\ op' = [ name |-> "invoke" ]
    /\ UNCHANGED << now, cb, cache, stats, retry_count, retry_delays,
                    retry_config, backoff, middleware >>

\* time.sleep(delay) returns and the loop condition is tested; past the loop
\* the wrapper raises last_exception
WrapperWake ==
    /\ pc = "sleep"
    /\ now' = now + call.delay
    /\ hist' = [ hist EXCEPT !.slept = Append(@, call.delay) ]
    /\ IF call.attempt < retry_config.max_attempts
       THEN /\ pc' = "invoke"
            /\ result' = result
       ELSE /\ pc' = "idle"
            /\ result' = WrapperRaised(hist.outcomes[Len(hist.outcomes)])
    /\ op' = [ name |-> "wake" ]
    /\ UNCHANGED << cb, cache, stats, retry_count, retry_delays,
                    retry_config, backoff, middleware, call >>

NextDecorator ==
    \/ WrapperCall
    \/ \E o \in FuncOutcomes(hist.transport_calls + 1) :
          \E u \in (0 - JitterRange(backoff, call.attempt + 1))
                      ..JitterRange(backoff, call.attempt + 1) :
              Invoke(o, u)
    \/ WrapperWake

SpecDecorator == InitDecorator /\ [][NextDecorator]_vars

\* ---------------------------------------------------------------- logging

\* Text is a sequence of pieces: a header or parameter value is spelled out
\* character by character, fixed text is one piece.
LogChars == {"x", "."}
Values == UNION { [ 1..n -> LogChars ] : n \in 1..MaxValueLen }

\* needle occurs in line as a substring
Contains(line, needle) ==
    \E i \in 0..(Len(line) - Len(needle)) :
        SubSeq(line, i + 1, i + Len(needle)) = needle

\* MaskStyle
FULL == "full"
PARTIAL == "partial"
HASH == "hash"

\* RequestLogger.REDACTION_PLACEHOLDER
REDACTION_PLACEHOLDER == "***REDACTED***"

\* LogConfig
NewLogConfig(mask_style, log_request_headers, log_response_headers) ==
    [ log_request_headers  |-> log_request_headers,
      log_response_headers |-> log_response_headers,
      redact_headers       |-> {"authorization", "x-api-key", "api-key", "apikey",
                                "x-auth-token", "cookie", "set-cookie",
                                "x-csrf-token"},
      redact_query_params  |-> {"password", "token", "secret", "api_key",
                                "apikey", "access_token"},
      mask_style           |-> mask_style,
      partial_mask_chars   |-> PartialMaskChars ]

\* str.lower() on the names used here
Lower(name) ==
    CASE name = "Authorization" -> "authorization"
      [] name = "Set-Cookie"    -> "set-cookie"
      [] name = "X-Trace"       -> "x-trace"
      [] name = "Token"         -> "token"
      [] OTHER                  -> name

\* RequestLogger._mask_value; the digest of the HASH style is one piece
MaskValue(config, value) ==
    CASE config.mask_style = FULL -> << REDACTION_PLACEHOLDER >>
      [] config.mask_style = PARTIAL ->
           LET chars == config.partial_mask_chars IN
           IF Len(value) <= chars * 2
           THEN << "*", "*", "*", "*" >>
           ELSE SubSeq(value, 1, chars) \o << ".", ".", "." >>
                  \o SubSeq(value, Len(value) - chars + 1, Len(value))
      [] config.mask_style = HASH -> << "[HASH:", "sha256", "]" >>
      [] OTHER -> << REDACTION_PLACEHOLDER >>

\* RequestLogger._redact_value on the values used here: of the redact_patterns
\* only "Bearer\s+([^\s]+)" can match them
RedactValue(config, value) ==
    IF Len(value) >= 2 /\ value[1] = "Bearer "
    THEN << "Bearer " >> \o MaskValue(config, Tail(value))
    ELSE value

\* RequestLogger.redact_headers; headers are the dict's items in order
RedactHeaders(config, headers) ==
    [ i \in 1..Len(headers) |->
        << headers[i][1],
           IF Lower(headers[i][1]) \in config.redact_headers
           THEN MaskValue(config, headers[i][2])
           ELSE RedactValue(config, headers[i][2]) >> ]

\* urllib.parse.quote_plus as urlencode applies it, piece by piece
UrlEncode(text) ==
    [ i \in 1..Len(text) |->
        CASE text[i] = "*" -> "%2A"
          [] text[i] = REDACTION_PLACEHOLDER -> "%2A%2A%2AREDACTED%2A%2A%2A"
          [] text[i] = "[HASH:" -> "%5BHASH%3A"
          [] text[i] = "]" -> "%5D"
          [] OTHER -> text[i] ]

\* RequestLogger.redact_url; a url is its part before "?" and its query
\* parameters in order, their names distinct
RedactUrl(config, url) ==
    IF url.query = << >>
    THEN url
    ELSE [ url EXCEPT !.query =
             [ i \in 1..Len(url.query) |->
                 << url.query[i][1],
                    UrlEncode(IF Lower(url.query[i][1]) \in config.redact_query_params
                              THEN MaskValue(config, url.query[i][2])
                              ELSE url.query[i][2]) >> ] ]

\* the text of a url
RECURSIVE RenderQuery(_)
RenderQuery(query) ==
    IF query = << >>
    THEN << >>
    ELSE << query[1][1], "=" >> \o query[1][2]
           \o (IF Len(query) > 1 THEN << "&" >> ELSE << >>)
           \o RenderQuery(Tail(query))

RenderUrl(url) ==
    << url.base >> \o (IF url.query = << >> THEN << >>
                       ELSE << "?" >> \o RenderQuery(url.query))

\* the text of a headers dict in an f-string
RECURSIVE RenderItems(_)
RenderItems(headers) ==
    IF headers = << >>
    THEN << >>
    ELSE << "'", headers[1][1], "': '" >> \o headers[1][2] \o << "'" >>
           \o (IF Len(headers) > 1 THEN << ", " >> ELSE << >>)
           \o RenderItems(Tail(headers))

RenderHeaders(headers) == << "{" >> \o RenderItems(headers) \o << "}" >>

\* RequestLogger.log_request: the lines it emits
LogRequest(config, method, url, headers) ==
    << << "Request started: ", method, " " >> \o RenderUrl(RedactUrl(config, url)) >>
      \o (IF config.log_request_headers /\ headers # << >>
          THEN << << "Request headers: " >>
                    \o RenderHeaders(RedactHeaders(config, headers)) >>
          ELSE << >>)

\* RequestLogger.log_response: the lines it emits
LogResponse(config, status_code, headers) ==
    << << "Response: ", ToString(status_code) >> >>
      \o (IF config.log_response_headers /\ headers # << >>
          THEN << << "Response headers: " >>
                    \o RenderHeaders(RedactHeaders(config, headers)) >>
          ELSE << >>)

\* RequestLogger.log_retry: the line it emits
LogRetry(attempt, max_attempts, delay, reason) ==
    << << "Retry ", ToString(attempt), "/", ToString(max_attempts), " after ",
          ToString(delay), "s: ", reason >> >>

\* LoggingMiddleware.process_request: the line it emits
MiddlewareLogRequest(method, url) ==
    << << "Request: ", method, " " >> \o RenderUrl(url) >>

\* LoggingMiddleware.process_response: the line it emits
MiddlewareLogResponse(status_code) ==
    << << "Response: ", ToString(status_code) >> >>

\* logger.debug(f"Cache hit for {url}") in _make_request
CacheHitLog(url) ==
    << << "Cache hit for " >> \o RenderUrl(url) >>

\* ------------------------------------------- the breaker used on its own

\* the client's fields as construction leaves them
IdleClient ==
    /\ stats = NewClientStats
    /\ retry_count = 0
    /\ retry_delays = << >>
    /\ retry_config = NewRetryConfig(MaxAttempts, TRUE, MaxRetryAfter)
    /\ backoff = NewExponentialBackoff(InitialDelay, MaxDelay, Multiplier)
    /\ middleware = CreateDefaultMiddlewareChain
    /\ pc = "idle"
    /\ call = NewCall("", "", FALSE)
    /\ result = NoResult
    /\ hist = NewHist

ClientVars == << stats, retry_count, retry_delays, retry_config, backoff, middleware,
                 pc, call, result, hist >>

InitBreaker ==
    /\ now = 0
    /\ \E ft \in 1..MaxThreshold, st \in 1..MaxThreshold,
          rt \in {0, RecoveryTimeout} :
          cb = NewCircuitBreaker(ft, st, rt)
    /\ cache = NewInMemoryCache(DefaultTtl, MaxSize, "")
    /\ IdleClient
    /\ op = [ name |-> "init" ]

\* breaker.allow_request()
DoAllowRequest ==
    /\ cb.rejected_calls < MaxBreakerCalls
    /\ LET r == AllowRequest(cb, now)
       IN  /\ cb' = r.cb
           /\ op' = [ name |-> "allow_request", ret |-> r.ret ]
    /\ UNCHANGED << now, cache, ClientVars >>

\* breaker.is_open()
DoIsOpen ==
    /\ LET r == IsOpen(cb, now)
       IN  /\ cb' = r.cb
           /\ op' = [ name |-> "is_open", ret |-> r.ret ]
    /\ UNCHANGED << now, cache, ClientVars >>

\* breaker.record_success()
DoRecordSuccess ==
    /\ cb.total_calls < MaxBreakerCalls
    /\ cb' = RecordSuccess(cb)
    /\ op' = [ name |-> "record_success" ]
    /\ UNCHANGED << now, cache, ClientVars >>

\* breaker.record_failure()
DoRecordFailure ==
    /\ cb.total_calls < MaxBreakerCalls
    /\ cb' = RecordFailure(cb, now)
    /\ op' = [ name |-> "record_failure" ]
    /\ UNCHANGED << now, cache, ClientVars >>

\* breaker.reset()
DoReset ==
    /\ cb' = Reset(cb)
    /\ op' = [ name |-> "reset" ]
    /\ UNCHANGED << now, cache, ClientVars >>

\* time passes
BreakerTick ==
    /\ now < MaxTime
    /\ now' = now + 1
    /\ op' = [ name |-> "tick" ]
    /\ UNCHANGED << cb, cache, ClientVars >>

NextBreaker ==
    \/ DoAllowRequest
    \/ DoIsOpen
    \/ DoRecordSuccess
    \/ DoRecordFailure
    \/ DoReset
    \/ BreakerTick

SpecBreaker == InitBreaker /\ [][NextBreaker]_vars

\* ------------------------- the breaker with error kinds and callbacks

\* the exceptions handed to record_failure
ErrorKinds == {"ValueError", "OSError", "TimeoutError", "KeyboardInterrupt"}

\* the tuples given as expected_exceptions and as excluded_exceptions
ExpectedChoices == { {}, {"OSError"}, {"ValueError", "TimeoutError"} }
ExcludedChoices == { {}, {"ValueError"}, {"TimeoutError"} }

\* the callbacks a caller registers
Callbacks == {"recorder", "counter", "raiser"}

\* breakers built with expected_exceptions and excluded_exceptions, no callback
InitFilter ==
    /\ now = 0
    /\ \E ft \in 1..MaxThreshold, rt \in {0, RecoveryTimeout},
          expected \in ExpectedChoices, excluded \in ExcludedChoices :
          cb = NewCircuitBreakerWith(ft, 1, rt, expected, excluded, NoCallback)
    /\ cache = NewInMemoryCache(DefaultTtl, MaxSize, "")
    /\ IdleClient
    /\ op = [ name |-> "init" ]

\* breakers built with or without an on_state_change callback
InitCallbacks ==
    /\ now = 0
    /\ \E ft \in 1..MaxThreshold, rt \in {0, RecoveryTimeout},
          callback \in {NoCallback, "recorder", "raiser"} :
          cb = NewCircuitBreakerWith(ft, 1, rt, {}, {}, callback)
    /\ cache = NewInMemoryCache(DefaultTtl, MaxSize, "")
    /\ IdleClient
    /\ op = [ name |-> "init" ]

\* what one breaker operation did: the breaker before it, the invocations of
\* callbacks it made and whether an exception left it
BreakerOp(name, exception, r) ==
    [ name |-> name, exception |-> exception, before |-> cb, at |-> now,
      calls |-> r.calls, raised |-> r.raised ]

\* breaker.add_state_change_listener(listener)
DoAddListener(listener) ==
    /\ op.name = "init"
    /\ Len(cb.listeners) < MaxListeners
    /\ cb' = [ cb EXCEPT !.listeners = Append(@, listener) ]
    /\ UNCHANGED << now, cache, ClientVars, op >>

\* breaker.record_failure(exception)
DoRecordFailureFor(exception) ==
    /\ cb.total_calls < MaxBreakerCalls
    /\ LET r == RecordFailureFor(cb, now, exception)
       IN  /\ cb' = r.cb
           /\ op' = BreakerOp("record_failure", exception, r)
    /\ UNCHANGED << now, cache, ClientVars >>

\* breaker.record_success()
DoRecordSuccessNotify ==
    /\ cb.total_calls < MaxBreakerCalls
    /\ LET r == RecordSuccessNotify(cb)
       IN  /\ cb' = r.cb
           /\ op' = BreakerOp("record_success", NoException, r)
    /\ UNCHANGED << now, cache, ClientVars >>

\* breaker.allow_request()
DoAllowRequestNotify ==
    /\ cb.rejected_calls < MaxBreakerCalls
    /\ LET r == AllowRequestNotify(cb, now)
       IN  /\ cb' = r.cb
           /\ op' = BreakerOp("allow_request", NoException, r)
    /\ UNCHANGED << now, cache, ClientVars >>

\* breaker.reset()
DoResetNotify ==
    /\ LET r == ResetNotify(cb)
       IN  /\ cb' = r.cb
           /\ op' = BreakerOp("reset", NoException, r)
    /\ UNCHANGED << now, cache, ClientVars >>

\* time passes
CallbacksTick ==
    /\ now < MaxTime
    /\ now' = now + 1
    /\ op' = [ name |-> "tick" ]
    /\ UNCHANGED << cb, cache, ClientVars >>

NextFilter ==
    \/ \E exception \in ErrorKinds \cup {NoException} : DoRecordFailureFor(exception)
    \/ DoRecordSuccessNotify
    \/ DoAllowRequestNotify
    \/ DoResetNotify
    \/ CallbacksTick

SpecFilter == InitFilter /\ [][NextFilter]_vars

NextCallbacks ==
    \/ \E listener \in Callbacks : DoAddListener(listener)
    \/ DoRecordFailureFor(NoException)
    \/ DoRecordSuccessNotify
    \/ DoAllowRequestNotify
    \/ DoResetNotify
    \/ CallbacksTick

SpecCallbacks == InitCallbacks /\ [][NextCallbacks]_vars

\* ----------------------------------------------- building the objects

\* what a constructor statement gives: the object built, and whether it
\* raised. None of the three __init__ has a statement that raises
Built(value) == [ raised |-> FALSE, value |-> value ]

\* CircuitBreaker(failure_threshold=.., success_threshold=..): __init__ copies
\* its arguments
ConstructCircuitBreaker(failure_threshold, success_threshold) ==
    Built(NewCircuitBreaker(failure_threshold, success_threshold, RecoveryTimeout))

\* RetryConfig(max_attempts=..): a dataclass with no __post_init__
ConstructRetryConfig(max_attempts) ==
    Built(NewRetryConfig(max_attempts, TRUE, MaxRetryAfter))

\* ExponentialBackoff(initial_delay=.., max_delay=..): a dataclass with no
\* __post_init__
ConstructExponentialBackoff(initial_delay, max_delay) ==
    Built(NewExponentialBackoff(initial_delay, max_delay, Multiplier))

InitConstruct ==
    /\ now = 0
    /\ cb = NewCircuitBreaker(MaxThreshold, 1, RecoveryTimeout)
    /\ cache = NewInMemoryCache(DefaultTtl, MaxSize, "")
    /\ IdleClient
    /\ op = [ name |-> "init" ]

\* cb = CircuitBreaker(failure_threshold, success_threshold)
DoConstructCircuitBreaker(failure_threshold, success_threshold) ==
    /\ LET r == ConstructCircuitBreaker(failure_threshold, success_threshold)
       IN  /\ cb' = IF r.raised THEN cb ELSE r.value
           /\ op' = [ name |-> "CircuitBreaker", raised |-> r.raised,
                      failure_threshold |-> failure_threshold,
                      success_threshold |-> success_threshold ]
    /\ UNCHANGED << now, cache, ClientVars >>

\* retry_config = RetryConfig(max_attempts)
DoConstructRetryConfig(max_attempts) ==
    /\ LET r == ConstructRetryConfig(max_attempts)
       IN  /\ retry_config' = IF r.raised THEN retry_config ELSE r.value
           /\ op' = [ name |-> "RetryConfig", raised |-> r.raised,
                      max_attempts |-> max_attempts ]
    /\ UNCHANGED << now, cb, cache, stats, retry_count, retry_delays, backoff,
                    middleware, pc, call, result, hist >>

\* backoff = ExponentialBackoff(initial_delay, max_delay)
DoConstructExponentialBackoff(initial_delay, max_delay) ==
    /\ LET r == ConstructExponentialBackoff(initial_delay, max_delay)
       IN  /\ backoff' = IF r.raised THEN backoff ELSE r.value
           /\ op' = [ name |-> "ExponentialBackoff", raised |-> r.raised,
                      initial_delay |-> initial_delay, max_delay |-> max_delay ]
    /\ UNCHANGED << now, cb, cache, stats, retry_count, retry_delays, retry_config,
                    middleware, pc, call, result, hist >>

NextConstruct ==
    \/ \E ft \in 0..MaxThreshold, st \in 0..MaxThreshold :
          DoConstructCircuitBreaker(ft, st)
    \/ \E ma \in 0..MaxAttempts : DoConstructRetryConfig(ma)
    \/ \E initial_delay \in 1..2, max_delay \in 0..MaxDelay :
          DoConstructExponentialBackoff(initial_delay, max_delay)
    \/ DoRecordFailure
    \/ DoRecordSuccess
    \/ DoAllowRequest

SpecConstruct == InitConstruct /\ [][NextConstruct]_vars

\* --------------------------------------------- the cache used on its own

Keys == {"a", "b", "c"}
Ttls == {None, 0, 1}

InitCache ==
    /\ now = 0
    /\ cb = NewCircuitBreaker(MaxThreshold, 1, RecoveryTimeout)
    /\ \E max_size \in 1..MaxSize :
          cache = NewInMemoryCache(DefaultTtl, max_size, "ns")
    /\ IdleClient
    /\ op = [ name |-> "init" ]

CacheOps(c) ==
    c.stats.hits + c.stats.misses + c.stats.sets + c.stats.deletes

\* cache.get(key)
DoGet(key) ==
    /\ CacheOps(cache) < MaxCacheOps
    /\ LET r == CacheGet(cache, key, now)
       IN  /\ cache' = r.cache
           /\ op' = [ name |-> "get", key |-> key, ret |-> r.ret,
                      removed |-> Size(cache) - Size(r.cache) ]
    /\ UNCHANGED << now, cb, ClientVars >>

\* cache.set(key, value, ttl): the n-th set stores object number n
DoSet(key, ttl) ==
    /\ CacheOps(cache) < MaxCacheOps
    /\ cache' = CacheSet(cache, key, cache.stats.sets + 1, ttl, now)
    /\ op' = [ name |-> "set", key |-> key, ret |-> None ]
    /\ UNCHANGED << now, cb, ClientVars >>

\* cache.delete(key)
DoDelete(key) ==
    /\ CacheOps(cache) < MaxCacheOps
    /\ LET r == CacheDelete(cache, key)
       IN  /\ cache' = r.cache
           /\ op' = [ name |-> "delete", key |-> key, ret |-> r.ret ]
    /\ UNCHANGED << now, cb, ClientVars >>

\* cache.exists(key)
DoExists(key) ==
    /\ LET r == CacheExists(cache, key, now)
       IN  /\ cache' = r.cache
           /\ op' = [ name |-> "exists", key |-> key, ret |-> r.ret ]
    /\ UNCHANGED << now, cb, ClientVars >>

\* cache.clear()
DoClear ==
    /\ cache' = CacheClear(cache)
    /\ op' = [ name |-> "clear", key |-> "", ret |-> None ]
    /\ UNCHANGED << now, cb, ClientVars >>

\* time passes
CacheTick ==
    /\ now < MaxCacheTime
    /\ now' = now + 1
    /\ op' = [ name |-> "tick", key |-> "", ret |-> None ]
    /\ UNCHANGED << cb, cache, ClientVars >>

NextCache ==
    \/ \E k \in Keys : DoGet(k)
    \/ \E k \in Keys, ttl \in Ttls : DoSet(k, ttl)
    \/ \E k \in Keys : DoDelete(k)
    \/ \E k \in Keys : DoExists(k)
    \/ DoClear
    \/ CacheTick

SpecCache == InitCache /\ [][NextCache]_vars

\* ------------------------------- the cache read and written by one caller

\* op.access[k] is the number of the last access (get hit or set) to key k, 0
\* when there was none; op.clock is the number of accesses so far
NoAccess == [ k \in Keys |-> 0 ]

InitLru ==
    /\ now = 0
    /\ cb = NewCircuitBreaker(MaxThreshold, 1, RecoveryTimeout)
    /\ \E max_size \in 1..MaxSize :
          cache = NewInMemoryCache(DefaultTtl, max_size, "ns")
    /\ IdleClient
    /\ op = [ name |-> "init", key |-> "", ret |-> None,
              access |-> NoAccess, clock |-> 0 ]

\* cache.get(key)
LruGet(key) ==
    /\ CacheOps(cache) < MaxLruOps
    /\ LET r == CacheGet(cache, key, now)
           hit == r.ret # None
       IN  /\ cache' = r.cache
           /\ op' = [ name |-> "get", key |-> key, ret |-> r.ret,
                      access |-> IF hit
                                 THEN [ op.access EXCEPT ![key] = op.clock + 1 ]
                                 ELSE op.access,
                      clock |-> IF hit THEN op.clock + 1 ELSE op.clock ]
    /\ UNCHANGED << now, cb, ClientVars >>

\* cache.set(key, value): the n-th set stores object number n
LruSet(key) ==
    /\ CacheOps(cache) < MaxLruOps
    /\ cache' = CacheSet(cache, key, cache.stats.sets + 1, None, now)
    /\ op' = [ name |-> "set", key |-> key, ret |-> None,
               access |-> [ op.access EXCEPT ![key] = op.clock + 1 ],
               clock |-> op.clock + 1 ]
    /\ UNCHANGED << now, cb, ClientVars >>

\* cache.delete(key)
LruDelete(key) ==
    /\ CacheOps(cache) < MaxLruOps
    /\ LET r == CacheDelete(cache, key)
       IN  /\ cache' = r.cache
           /\ op' = [ op EXCEPT !.name = "delete", !.key = key, !.ret = r.ret ]
    /\ UNCHANGED << now, cb, ClientVars >>

\* time passes
LruTick ==
    /\ now < MaxCacheTime
    /\ now' = now + 1
    /\ op' = [ op EXCEPT !.name = "tick", !.key = "", !.ret = None ]
    /\ UNCHANGED << cb, cache, ClientVars >>

NextLru ==
    \/ \E k \in Keys : LruGet(k)
    \/ \E k \in Keys : LruSet(k)
    \/ \E k \in Keys : LruDelete(k)
    \/ LruTick

SpecLru == InitLru /\ [][NextLru]_vars

\* --------------------------------------- the middleware chain on its own

ChainMiddleware == LibraryMiddleware \cup CallerMiddleware
ChainContexts ==
    { NewRequestContext("GET", "/u", h, b) :
        h \in { EmptyDict, DictSet(EmptyDict, "User-Agent", "curl") },
        b \in { NoBody, "b" } }

\* MiddlewareChain(): op is the last operation on the chain, what it was
\* given, the calls it made to the middleware and what it returned
InitChain ==
    /\ now = 0
    /\ cb = NewCircuitBreaker(MaxThreshold, 1, RecoveryTimeout)
    /\ cache = NewInMemoryCache(DefaultTtl, MaxSize, "")
    /\ stats = NewClientStats
    /\ retry_count = 0
    /\ retry_delays = << >>
    /\ retry_config = NewRetryConfig(MaxAttempts, TRUE, MaxRetryAfter)
    /\ backoff = NewExponentialBackoff(InitialDelay, MaxDelay, Multiplier)
    /\ middleware = << >>
    /\ pc = "idle"
    /\ call = NewCall("", "", FALSE)
    /\ result = NoResult
    /\ hist = NewHist
    /\ op = [ name |-> "init" ]

ChainFrame ==
    UNCHANGED << now, cb, cache, stats, retry_count, retry_delays, retry_config,
                 backoff, pc, call, result, hist >>

\* chain.add(mw)
DoChainAdd(mw) ==
    /\ Len(middleware) < MaxChain
    /\ middleware' = ChainAdd(middleware, mw)
    /\ op' = [ name |-> "add" ]
    /\ ChainFrame

\* chain.remove(mw)
DoChainRemove(mw) ==
    /\ LET r == ChainRemove(middleware, mw)
       IN  /\ middleware' = r.chain
           /\ op' = [ name |-> "remove", ret |-> r.ret ]
    /\ ChainFrame

\* chain.clear()
DoChainClear ==
    /\ middleware' = << >>
    /\ op' = [ name |-> "clear" ]
    /\ ChainFrame

\* chain.process_request(context)
DoChainProcessRequest(context) ==
    /\ LET r == ChainProcessRequest(middleware, context)
       IN  op' = [ name |-> "process_request", given |-> context,
                   calls |-> r.calls, raised |-> r.raised, ret |-> r.context ]
    /\ UNCHANGED middleware
    /\ ChainFrame

\* chain.process_response(request, response)
DoChainProcessResponse(request, response) ==
    /\ LET r == ChainProcessResponse(middleware, request, response)
       IN  op' = [ name |-> "process_response", given |-> response,
                   request |-> request,
                   calls |-> r.calls, raised |-> r.raised, ret |-> r.response ]
    /\ UNCHANGED middleware
    /\ ChainFrame

\* chain.process_error(request, error)
DoChainProcessError(request, error) ==
    /\ op' = [ name |-> "process_error", given |-> error,
               calls |-> ChainProcessError(middleware, request, error),
               raised |-> FALSE, ret |-> None ]
    /\ UNCHANGED middleware
    /\ ChainFrame

NextChain ==
    \/ \E mw \in ChainMiddleware : DoChainAdd(mw)
    \/ \E mw \in ChainMiddleware : DoChainRemove(mw)
    \/ DoChainClear
    \/ \E c \in ChainContexts : DoChainProcessRequest(c)
    \/ \E c \in ChainContexts, sc \in {200, 500} :
          DoChainProcessResponse(c, NewResponseContext(sc))
    \/ \E c \in ChainContexts, e \in {"TimeoutError", "RequestError"} :
          DoChainProcessError(c, e)

SpecChain == InitChain /\ [][NextChain]_vars

\* ------------------------------- one call through a caller-built chain

\* the rest of the try block when the chain is not the default one: the
\* post-phase may raise, after record_success and inside the try statement
OnResponseVia(chain, s, c, response, t) ==
    LET post == ChainProcessResponse(chain, c.context,
                                     NewResponseContext(response.status_code))
    IN  IF post.raised
        THEN ExceptException([ s EXCEPT !.cb = RecordSuccess(@),
                                        !.stats.successful_requests = @ + 1 ],
                             c, "Exception", t)
        ELSE OnResponse(s, c.method, c.url, c.use_cache, response, t)

\* the body of the try statement for one transport outcome, with that chain
AttemptVia(chain, s, config, b, c, outcome, t, u) ==
    IF /\ outcome.kind = "response"
       /\ outcome.status_code # 429
       /\ ~ShouldRetryOnStatus(outcome.status_code, config)
    THEN OnResponseVia(chain, s, c, outcome, t)
    ELSE Attempt(s, config, b, c, outcome, t, u)

\* the chains a client may be built with
MwChains == UNION { [ 1..n -> ChainMiddleware ] : n \in 0..(MaxChain - 1) }

MwOutcomes(id) ==
    { [ kind |-> "response", id |-> id, status_code |-> sc,
        retry_after |-> RetryAfterAbsent ] : sc \in {200, 500} }
      \cup { [ kind |-> "timeout", id |-> id, status_code |-> None,
               retry_after |-> RetryAfterAbsent ] }

\* RateWiseClient(middleware=chain); hist.sent lists the requests handed to
\* the transport, and a single _make_request call is followed
InitMiddleware ==
    /\ now = 0
    /\ cb = NewCircuitBreaker(MaxThreshold, 1, RecoveryTimeout)
    /\ cache = NewInMemoryCache(DefaultTtl, MaxSize, "")
    /\ stats = NewClientStats
    /\ retry_count = 0
    /\ retry_delays = << >>
    /\ retry_config = NewRetryConfig(MaxAttempts, TRUE, MaxRetryAfter)
    /\ backoff = NewExponentialBackoff(InitialDelay, MaxDelay, Multiplier)
    /\ middleware \in MwChains
    /\ pc = "idle"
    /\ call = NewCall("", "", FALSE)
    /\ result = NoResult
    /\ hist = [ NewHist EXCEPT !.ncalls = MaxCalls - 1 ] @@ [ sent |-> << >> ]
    /\ op = [ name |-> "init" ]

\* _make_request(method, "/u", json=body, use_cache=False) up to the attempt
\* loop: the request context, the pre-phase (outside the try statement, so
\* what it raises leaves the call as it is), the reset of the retry fields
MwExecute(method, body) ==
    /\ pc = "idle"
    /\ hist.ncalls < MaxCalls
    /\ LET context == NewRequestContext(method, "/u", EmptyDict, body)
           pre == ChainProcessRequest(middleware, context)
       IN  /\ hist' = [ hist EXCEPT !.ncalls = @ + 1, !.outcomes = << >>,
                                    !.slept = << >>, !.gate = NoGate,
                                    !.sent = << >>,
                                    !.pre = [ valid |-> TRUE, cb |-> cb ] ]
           /\ IF pre.raised
              THEN /\ result' = RaisedFor("Exception",
                                           NewCall(method, "/u", FALSE), "")
                   /\ pc' = "idle"
                   /\ UNCHANGED << call, retry_count, retry_delays >>
              ELSE /\ result' = NoResult
                   /\ call' = NewCall(method, "/u", FALSE)
                                 @@ [ context |-> pre.context, json |-> body ]
                   /\ retry_count' = 0
                   /\ retry_delays' = << >>
                   /\ pc' = "gate"
    /\ op' = [ name |-> "execute" ]
    /\ UNCHANGED << now, cb, cache, stats, retry_config, backoff, middleware >>

\* self._client.request(method=context.method, url=context.url,
\* headers=context.headers, json=json, ...) and the try statement around it
MwRespond(outcome) ==
    /\ pc = "transport"
    /\ LET r == AttemptVia(middleware, ClientState, retry_config, backoff, call,
                           outcome, now, 0)
           request == [ method |-> call.context.method, url |-> call.context.url,
                        headers |-> call.context.headers, body |-> call.json ]
       IN  /\ cb' = r.s.cb
           /\ stats' = r.s.stats
           /\ retry_count' = r.s.retry_count
           /\ retry_delays' = r.s.retry_delays
           /\ cache' = r.s.cache
           /\ result' = r.result
           /\ call' = [ call EXCEPT !.delay = r.delay ]
           /\ pc' = IF r.ctl = "sleep" THEN "sleep" ELSE "idle"
           /\ hist' = [ hist EXCEPT
                  !.sent = Append(@, request),
                  !.outcomes = Append(@, outcome),
                  !.slept = IF r.ctl = "sleep" THEN Append(@, r.delay) ELSE @ ]
    /\ op' = [ name |-> "respond" ]
    /\ UNCHANGED << now, retry_config, backoff, middleware >>

NextMiddleware ==
    \/ \E m \in Methods, b \in {NoBody, "b"} : MwExecute(m, b)
    \/ Gate
    \/ \E o \in MwOutcomes(hist.transport_calls) : MwRespond(o)
    \/ Wake

SpecMiddleware == InitMiddleware /\ [][NextMiddleware]_vars

\* ------------------------------- threads calling breaker.record_failure

\* pc[t] is the position of thread t inside record_failure; call[t] holds its
\* locals: tmp is the value read by the `+=` under way, old_state the local of
\* _transition_to, calls the number of record_failure calls it has completed.
Threads == 1..NumThreads

InitThreads ==
    /\ now = 0
    /\ \E ft \in 1..MaxThreshold : cb = NewCircuitBreaker(ft, 1, RecoveryTimeout)
    /\ cache = NewInMemoryCache(DefaultTtl, MaxSize, "")
    /\ stats = NewClientStats
    /\ retry_count = 0
    /\ retry_delays = << >>
    /\ retry_config = NewRetryConfig(MaxAttempts, TRUE, MaxRetryAfter)
    /\ backoff = NewExponentialBackoff(InitialDelay, MaxDelay, Multiplier)
    /\ middleware = CreateDefaultMiddlewareChain
    /\ pc = [ t \in Threads |-> "idle" ]
    /\ call = [ t \in Threads |-> [ tmp |-> 0, old_state |-> CLOSED, calls |-> 0 ] ]
    /\ result = NoResult
    /\ hist = NewHist
    /\ op = [ name |-> "init" ]

ThreadFrame ==
    UNCHANGED << now, cache, stats, retry_count, retry_delays, retry_config,
                 backoff, middleware, result, hist, op >>

\* thread t moves from position a to position b
Goto(t, a, b) == pc[t] = a /\ pc' = [ pc EXCEPT ![t] = b ]

\* thread t calls breaker.record_failure()
RfCall(t) ==
    /\ call[t].calls < MaxThreadCalls
    /\ Goto(t, "idle", "acquire")
    /\ UNCHANGED << cb, call >>
    /\ ThreadFrame

\* with self._lock: (entry); the thread waits here while another holds the lock
RfAcquire(t) ==
    /\ Goto(t, "acquire", "total_read")
    /\ LockFree(cb, t)
    /\ cb' = [ cb EXCEPT !.lock = t ]
    /\ UNCHANGED call
    /\ ThreadFrame

\* self._metrics.total_calls += 1 (the read)
RfTotalRead(t) ==
    /\ Goto(t, "total_read", "total_write")
    /\ call' = [ call EXCEPT ![t].tmp = cb.total_calls ]
    /\ UNCHANGED cb
    /\ ThreadFrame

\* self._metrics.total_calls += 1 (the write)
RfTotalWrite(t) ==
    /\ Goto(t, "total_write", "failed_read")
    /\ cb' = [ cb EXCEPT !.total_calls = call[t].tmp + 1 ]
    /\ UNCHANGED call
    /\ ThreadFrame

\* self._metrics.failed_calls += 1 (the read)
RfFailedRead(t) ==
    /\ Goto(t, "failed_read", "failed_write")
    /\ call' = [ call EXCEPT ![t].tmp = cb.failed_calls ]
    /\ UNCHANGED cb
    /\ ThreadFrame

\* self._metrics.failed_calls += 1 (the write)
RfFailedWrite(t) ==
    /\ Goto(t, "failed_write", "count_read")
    /\ cb' = [ cb EXCEPT !.failed_calls = call[t].tmp + 1 ]
    /\ UNCHANGED call
    /\ ThreadFrame

\* self._failure_count += 1 (the read)
RfCountRead(t) ==
    /\ Goto(t, "count_read", "count_write")
    /\ call' = [ call EXCEPT ![t].tmp = cb.failure_count ]
    /\ UNCHANGED cb
    /\ ThreadFrame

\* self._failure_count += 1 (the write)
RfCountWrite(t) ==
    /\ Goto(t, "count_write", "stamp")
    /\ cb' = [ cb EXCEPT !.failure_count = call[t].tmp + 1 ]
    /\ UNCHANGED call
    /\ ThreadFrame

\* self._last_failure_time = time.time()
RfStamp(t) ==
    /\ Goto(t, "stamp", "branch")
    /\ cb' = [ cb EXCEPT !.last_failure_time = now ]
    /\ UNCHANGED call
    /\ ThreadFrame

\* the if / elif on self._state that decides on _transition_to(OPEN)
RfBranch(t) ==
    /\ pc[t] = "branch"
    /\ pc' = [ pc EXCEPT ![t] =
                 IF cb.state = HALF_OPEN
                 THEN "old_state"
                 ELSE IF cb.state = CLOSED /\ cb.failure_count >= cb.failure_threshold
                      THEN "old_state"
                      ELSE "release" ]
    /\ UNCHANGED << cb, call >>
    /\ ThreadFrame

\* _transition_to(OPEN): old_state = self._state; if old_state == new_state: return
TrOldState(t) ==
    /\ pc[t] = "old_state"
    /\ call' = [ call EXCEPT ![t].old_state = cb.state ]
    /\ pc' = [ pc EXCEPT ![t] = IF cb.state = OPEN THEN "release" ELSE "set_state" ]
    /\ UNCHANGED cb
    /\ ThreadFrame

\* _transition_to(OPEN): self._state = new_state
TrSetState(t) ==
    /\ Goto(t, "set_state", "transitions_read")
    /\ cb' = [ cb EXCEPT !.state = OPEN ]
    /\ UNCHANGED call
    /\ ThreadFrame

\* _transition_to(OPEN): self._metrics.state_transitions += 1 (the read)
TrTransitionsRead(t) ==
    /\ Goto(t, "transitions_read", "transitions_write")
    /\ call' = [ call EXCEPT ![t].tmp = cb.state_transitions ]
    /\ UNCHANGED cb
    /\ ThreadFrame

\* _transition_to(OPEN): self._metrics.state_transitions += 1 (the write); no
\* callback and no listener is registered, and OPEN resets no counter
TrTransitionsWrite(t) ==
    /\ Goto(t, "transitions_write", "release")
    /\ cb' = [ cb EXCEPT !.state_transitions = call[t].tmp + 1 ]
    /\ UNCHANGED call
    /\ ThreadFrame

\* with self._lock: (exit), and record_failure returns
RfRelease(t) ==
    /\ Goto(t, "release", "idle")
    /\ cb' = [ cb EXCEPT !.lock = None ]
    /\ call' = [ call EXCEPT ![t].calls = @ + 1 ]
    /\ ThreadFrame

NextThreads ==
    \E t \in Threads :
        \/ RfCall(t)
        \/ RfAcquire(t)
        \/ RfTotalRead(t)
        \/ RfTotalWrite(t)
        \/ RfFailedRead(t)
        \/ RfFailedWrite(t)
        \/ RfCountRead(t)
        \/ RfCountWrite(t)
        \/ RfStamp(t)
        \/ RfBranch(t)
        \/ TrOldState(t)
        \/ TrSetState(t)
        \/ TrTransitionsRead(t)
        \/ TrTransitionsWrite(t)
        \/ RfRelease(t)

SpecThreads == InitThreads /\ [][NextThreads]_vars

\* ---------------------------------- threads calling client.get concurrently

\* pc[t] is the position of thread t inside _make_request; call[t] holds its
\* locals: attempt, use_cache, tmp (the value read by the `+=` under way),
\* field (the ClientStats field of that `+=`), next (the position after it) and
\* calls (the _make_request calls it has completed). hist.events counts, per
\* ClientStats field, the `+=` statements begun.
StatsFields == { "total_requests", "successful_requests", "failed_requests",
                 "total_retries", "cache_hits", "cache_misses",
                 "circuit_breaker_trips" }

InitStats ==
    /\ now = 0
    /\ cb = NewCircuitBreaker(MaxThreshold, 1, RecoveryTimeout)
    /\ cache = NewInMemoryCache(DefaultTtl, MaxSize, "")
    /\ stats = NewClientStats
    /\ retry_count = 0
    /\ retry_delays = << >>
    /\ retry_config = NewRetryConfig(MaxAttempts, TRUE, MaxRetryAfter)
    /\ backoff = NewExponentialBackoff(InitialDelay, MaxDelay, Multiplier)
    /\ middleware = CreateDefaultMiddlewareChain
    /\ pc = [ t \in Threads |-> "idle" ]
    /\ call = [ t \in Threads |->
                  [ attempt |-> 0, use_cache |-> FALSE, tmp |-> 0,
                    field |-> "", next |-> "", calls |-> 0 ] ]
    /\ result = NoResult
    /\ hist = [ events |-> [ f \in StatsFields |-> 0 ] ]
    /\ op = [ name |-> "init" ]

\* thread t reaches the statement self._stats.<field> += 1, after which it
\* goes on at position next
BeginIncrement(t, field, next) ==
    /\ pc' = [ pc EXCEPT ![t] = "read" ]
    /\ call' = [ call EXCEPT ![t].field = field, ![t].next = next ]
    /\ hist' = [ hist EXCEPT !.events[field] = @ + 1 ]

\* thread t calls client.get(url, use_cache=...)
ThCall(t, use_cache) ==
    /\ pc[t] = "idle"
    /\ call[t].calls < MaxStatsCalls
    /\ call' = [ call EXCEPT ![t].attempt = 0, ![t].use_cache = use_cache ]
    /\ pc' = [ pc EXCEPT ![t] = IF use_cache THEN "lookup" ELSE "reset" ]
    /\ op' = [ name |-> "call" ]
    /\ UNCHANGED << now, cb, cache, stats, retry_count, retry_delays,
                    retry_config, backoff, middleware, result, hist >>

\* cached = self.cache.get(cache_key), then cache_hits += 1 or cache_misses += 1
ThLookup(t) ==
    /\ pc[t] = "lookup"
    /\ LET got == CacheGet(cache, GenerateCacheKey("GET", "/u"), now)
       IN  /\ cache' = got.cache
           /\ IF got.ret # None
              THEN BeginIncrement(t, "cache_hits", "return")
              ELSE BeginIncrement(t, "cache_misses", "reset")
    /\ op' = [ name |-> "lookup" ]
    /\ UNCHANGED << now, cb, stats, retry_count, retry_delays, retry_config,
                    backoff, middleware, result >>

\* self._stats.<field> += 1 (the read)
ThRead(t) ==
    /\ pc[t] = "read"
    /\ call' = [ call EXCEPT ![t].tmp = stats[call[t].field] ]
    /\ pc' = [ pc EXCEPT ![t] = "write" ]
    /\ op' = [ name |-> "read" ]
    /\ UNCHANGED << now, cb, cache, stats, retry_count, retry_delays,
                    retry_config, backoff, middleware, result, hist >>

\* self._stats.<field> += 1 (the write)
ThWrite(t) ==
    /\ pc[t] = "write"
    /\ stats' = [ stats EXCEPT ![call[t].field] = call[t].tmp + 1 ]
    /\ pc' = [ pc EXCEPT ![t] = call[t].next ]
    /\ op' = [ name |-> "write" ]
    /\ UNCHANGED << now, cb, cache, retry_count, retry_delays, retry_config,
                    backoff, middleware, call, result, hist >>

\* self.retry_count = 0; self._retry_delays.clear()
ThReset(t) ==
    /\ pc[t] = "reset"
    /\ retry_count' = 0
    /\ retry_delays' = << >>
    /\ pc' = [ pc EXCEPT ![t] = "loop" ]
    /\ op' = [ name |-> "reset" ]
    /\ UNCHANGED << now, cb, cache, stats, retry_config, backoff, middleware, call,
                    result, hist >>

\* while attempt < max_attempts: attempt += 1; total_requests += 1
ThLoop(t) ==
    /\ pc[t] = "loop"
    /\ IF call[t].attempt < retry_config.max_attempts
       THEN /\ pc' = [ pc EXCEPT ![t] = "read" ]
            /\ call' = [ call EXCEPT ![t].attempt = @ + 1,
                                     ![t].field = "total_requests",
                                     ![t].next = "gate" ]
            /\ hist' = [ hist EXCEPT !.events["total_requests"] = @ + 1 ]
       ELSE /\ pc' = [ pc EXCEPT ![t] = "return" ]
            /\ UNCHANGED << call, hist >>
    /\ op' = [ name |-> "loop" ]
    /\ UNCHANGED << now, cb, cache, stats, retry_count, retry_delays,
                    retry_config, backoff, middleware, result >>

\* if not self.circuit_breaker.allow_request(): circuit_breaker_trips += 1; raise
ThGate(t) ==
    /\ pc[t] = "gate"
    /\ LET a == AllowRequest(cb, now)
       IN  /\ cb' = a.cb
           /\ IF a.ret
              THEN /\ pc' = [ pc EXCEPT ![t] = "transport" ]
                   /\ UNCHANGED << call, hist >>
              ELSE BeginIncrement(t, "circuit_breaker_trips", "return")
    /\ op' = [ name |-> "gate" ]
    /\ UNCHANGED << now, cache, stats, retry_count, retry_delays, retry_config,
                    backoff, middleware, result >>

\* the transport answers 200: record_success(); successful_requests += 1
ThRespondOk(t) ==
    /\ pc[t] = "transport"
    /\ cb' = RecordSuccess(cb)
    /\ BeginIncrement(t, "successful_requests", "store")
    /\ op' = [ name |-> "respond_ok" ]
    /\ UNCHANGED << now, cache, stats, retry_count, retry_delays, retry_config,
                    backoff, middleware, result >>

\* the transport times out: record_failure(); failed_requests += 1
ThRespondTimeout(t) ==
    /\ pc[t] = "transport"
    /\ cb' = RecordFailure(cb, now)
    /\ BeginIncrement(t, "failed_requests", "failed")
    /\ op' = [ name |-> "respond_timeout" ]
    /\ UNCHANGED << now, cache, stats, retry_count, retry_delays, retry_config,
                    backoff, middleware, result >>

\* self.cache.set(cache_key, response) for a cached GET, then return response
ThStore(t) ==
    /\ pc[t] = "store"
    /\ cache' = IF call[t].use_cache
                THEN CacheSet(cache, GenerateCacheKey("GET", "/u"), 1, None, now)
                ELSE cache
    /\ pc' = [ pc EXCEPT ![t] = "return" ]
    /\ op' = [ name |-> "store" ]
    /\ UNCHANGED << now, cb, stats, retry_count, retry_delays, retry_config,
                    backoff, middleware, call, result, hist >>

\* after failed_requests += 1: retry (append the delay, total_retries += 1,
\* sleep) or raise TimeoutError
ThFailed(t) ==
    /\ pc[t] = "failed"
    /\ IF retry_config.retry_on_timeout /\ call[t].attempt < retry_config.max_attempts
       THEN /\ retry_delays' = Append(retry_delays,
                                      CalculateDelay(backoff, call[t].attempt, 0))
            /\ BeginIncrement(t, "total_retries", "sleep")
       ELSE /\ pc' = [ pc EXCEPT ![t] = "return" ]
            /\ UNCHANGED << retry_delays, call, hist >>
    /\ op' = [ name |-> "failed" ]
    /\ UNCHANGED << now, cb, cache, stats, retry_count, retry_config, backoff, middleware,
                    result >>

\* time.sleep(delay) returns; continue
ThWake(t) ==
    /\ pc[t] = "sleep"
    /\ pc' = [ pc EXCEPT ![t] = "loop" ]
    /\ op' = [ name |-> "wake" ]
    /\ UNCHANGED << now, cb, cache, stats, retry_count, retry_delays,
                    retry_config, backoff, middleware, call, result, hist >>

\* _make_request returns or raises
ThReturn(t) ==
    /\ pc[t] = "return"
    /\ pc' = [ pc EXCEPT ![t] = "idle" ]
    /\ call' = [ call EXCEPT ![t].calls = @ + 1 ]
    /\ op' = [ name |-> "return" ]
    /\ UNCHANGED << now, cb, cache, stats, retry_count, retry_delays,
                    retry_config, backoff, middleware, result, hist >>

NextStats ==
    \E t \in Threads :
        \/ \E use_cache \in BOOLEAN : ThCall(t, use_cache)
        \/ ThLookup(t)
        \/ ThRead(t)
        \/ ThWrite(t)
        \/ ThReset(t)
        \/ ThLoop(t)
        \/ ThGate(t)
        \/ ThRespondOk(t)
        \/ ThRespondTimeout(t)
        \/ ThStore(t)
        \/ ThFailed(t)
        \/ ThWake(t)
        \/ ThReturn(t)

SpecStats == InitStats /\ [][NextStats]_vars

\* ------------------------------------- the logging events of a call

QueryNames == {"token", "Token", "q"}
HeaderNames == {"Authorization", "Set-Cookie", "X-Trace"}
LogUrls ==
    { [ base |-> "/u", query |-> q ] :
        q \in {<< >>} \cup { << << n, v >> >> : n \in QueryNames, v \in Values } }
LogHeaders ==
    {<< >>} \cup { << << n, v >> >> : n \in HeaderNames, v \in Values }
          \cup { << << "X-Trace", << "Bearer " >> \o v >> >> : v \in Values }
NoUrl == [ base |-> "", query |-> << >> ]

\* op.config is the RequestLogger's LogConfig; op.url and op.headers are what
\* the last logging event was given, op.lines the lines it emitted
InitLog ==
    /\ now = 0
    /\ cb = NewCircuitBreaker(MaxThreshold, 1, RecoveryTimeout)
    /\ cache = NewInMemoryCache(DefaultTtl, MaxSize, "")
    /\ IdleClient
    /\ \E ms \in {FULL, PARTIAL, HASH}, rq \in BOOLEAN, rs \in BOOLEAN :
          op = [ name |-> "init", config |-> NewLogConfig(ms, rq, rs),
                 url |-> NoUrl, headers |-> << >>, lines |-> << >> ]

LogEvent(name, url, headers, lines) ==
    /\ op' = [ name |-> name, config |-> op.config, url |-> url,
               headers |-> headers, lines |-> lines ]
    /\ UNCHANGED << now, cb, cache, ClientVars >>

\* the cache-hit branch, which returns before anything else is logged
DoCacheHitLog(url) ==
    /\ op.name = "init"
    /\ LogEvent("cache_hit", url, << >>, CacheHitLog(url))

\* the default chain's LoggingMiddleware in self.middleware.process_request
DoMiddlewareLogRequest(method, url) ==
    /\ op.name = "init"
    /\ LogEvent("middleware_request", url, << >>, MiddlewareLogRequest(method, url))

\* self.request_logger.log_request(...) with the context's url
DoLogRequest(method, headers) ==
    /\ op.name = "middleware_request"
    /\ LogEvent("log_request", op.url, headers,
                LogRequest(op.config, method, op.url, headers))

\* self.request_logger.log_retry(...) in the retry loop
DoLogRetry(attempt, delay, reason) ==
    /\ op.name \in {"log_request", "log_retry"}
    /\ LogEvent("log_retry", NoUrl, << >>, LogRetry(attempt, MaxAttempts, delay, reason))

\* the default chain's LoggingMiddleware in self.middleware.process_response
DoMiddlewareLogResponse(status_code) ==
    /\ op.name \in {"log_request", "log_retry"}
    /\ LogEvent("middleware_response", NoUrl, << >>, MiddlewareLogResponse(status_code))

\* self.request_logger.log_response(...) with the response's headers
DoLogResponse(status_code, headers) ==
    /\ op.name = "middleware_response"
    /\ LogEvent("log_response", NoUrl, headers,
                LogResponse(op.config, status_code, headers))

NextLog ==
    \/ \E u \in LogUrls : DoCacheHitLog(u)
    \/ \E m \in Methods, u \in LogUrls : DoMiddlewareLogRequest(m, u)
    \/ \E m \in Methods, h \in LogHeaders : DoLogRequest(m, h)
    \/ \E a \in 1..MaxAttempts, d \in 0..MaxDelay,
          r \in {"Rate limit (429), Retry-After: None", "Server error (500)",
                 "Timeout", "Connection error"} : DoLogRetry(a, d, r)
    \/ \E sc \in {200, 404} : DoMiddlewareLogResponse(sc)
    \/ \E sc \in {200, 404}, h \in LogHeaders : DoLogResponse(sc, h)

SpecLog == InitLog /\ [][NextLog]_vars

\* ------------------------------------------------------------- properties

Last(seq) == seq[Len(seq)]

\* a _make_request call has ended and nothing was started since
CallEnded == pc = "idle" /\ hist.pre.valid /\ result.kind # "none"

Is429(o) == o.kind = "response" /\ o.status_code = 429

\* every transport attempt of the call was answered with 429
All429 ==
    /\ Len(hist.outcomes) >= 1
    /\ \A i \in 1..Len(hist.outcomes) : Is429(hist.outcomes[i])

\* the call saw k 429 responses without Retry-After and then a 200
Then200(k) ==
    /\ Len(hist.outcomes) = k + 1
    /\ \A i \in 1..k : /\ Is429(hist.outcomes[i])
                       /\ hist.outcomes[i].retry_after = RetryAfterAbsent
    /\ hist.outcomes[k + 1].kind = "response"
    /\ hist.outcomes[k + 1].status_code = 200

StrictlyIncreasing(seq) ==
    \A i \in 1..(Len(seq) - 1) : seq[i] < seq[i + 1]

\* C1: when every transport attempt of a call returns 429, the call ends by
\* raising RateLimitExceeded itself, with attempts = max_attempts, after exactly
\* max_attempts transport attempts.
C1_Exhausted429RaisesRateLimitExceeded ==
    (CallEnded /\ All429) =>
        /\ result.kind = "RateLimitExceeded"
        /\ result.attempts = retry_config.max_attempts
        /\ Len(hist.outcomes) = retry_config.max_attempts
        /\ hist.transport_calls =
              hist.pre.transport_calls + retry_config.max_attempts

\* C2: on the 429 path a breaker failure is recorded only at exhaustion: an
\* intermediate 429 leaves failure_count, failed_calls and state as they were,
\* and the 429 that exhausts max_attempts raises failure_count by exactly 1 and
\* leaves circuit_breaker_trips unchanged.
C2_BreakerFailureOnlyAt429Exhaustion ==
    /\ (pc = "sleep" /\ Is429(Last(hist.outcomes))) =>
          /\ cb.failure_count = hist.gate.allowed.failure_count
          /\ cb.failed_calls = hist.gate.allowed.failed_calls
          /\ cb.state = hist.gate.allowed.state
    /\ (CallEnded /\ All429 /\ Len(hist.outcomes) = retry_config.max_attempts) =>
          /\ cb.failure_count = hist.gate.allowed.failure_count + 1
          /\ stats.circuit_breaker_trips = hist.pre.stats.circuit_breaker_trips

\* C3: k 429 responses (k < max_attempts, no Retry-After, backoff without
\* jitter and below max_delay) and then a 200: the call returns that 200 after
\* k + 1 transport attempts, retry_count = k, the delay list has k strictly
\* increasing entries, total_retries grows by k, and the breaker records one
\* success and no failure.
C3_RetriesThenSuccess ==
    \A k \in 0..(retry_config.max_attempts - 1) :
        (CallEnded /\ Then200(k)
           /\ ~backoff.jitter /\ backoff.multiplier > 1
           /\ backoff.initial_delay * Pow(backoff.multiplier, k - 1) < backoff.max_delay) =>
            /\ result.kind = "response"
            /\ result.status_code = 200
            /\ result.value = Last(hist.outcomes).id
            /\ hist.transport_calls = hist.pre.transport_calls + k + 1
            /\ retry_count = k
            /\ Len(retry_delays) = k
            /\ StrictlyIncreasing(retry_delays)
            /\ hist.slept = retry_delays
            /\ stats.total_retries = hist.pre.stats.total_retries + k
            /\ cb.successful_calls = hist.pre.cb.successful_calls + 1
            /\ cb.failed_calls = hist.pre.cb.failed_calls

C3_Witness ==
    /\ CallEnded
    /\ Then200(2)
    /\ result.kind = "response"
    /\ retry_delays = << 1, 2 >>

\* C4: with respect_retry_after, a 429 whose Retry-After parses to r (any
\* r >= 0) is followed by a sleep of min(r, max_retry_after), whatever the
\* backoff delay is.
C4_RetryAfterWinsOverBackoff ==
    (pc = "sleep" /\ retry_config.respect_retry_after
       /\ Is429(Last(hist.outcomes))
       /\ Last(hist.outcomes).retry_after.kind = "seconds") =>
        Last(hist.slept) =
            Min(Last(hist.outcomes).retry_after.value, retry_config.max_retry_after)

\* the breaker was Open and its recovery timeout had not elapsed when the
\* last attempt asked it for permission
Denied ==
    /\ hist.gate.attempt > 0
    /\ hist.gate.cb.state = OPEN
    /\ hist.gate.cb.last_failure_time # None
    /\ hist.gate.now - hist.gate.cb.last_failure_time < hist.gate.cb.recovery_timeout

\* C5: when the breaker denies permission, the call raises CircuitBreakerOpen
\* with no transport attempt issued, circuit_breaker_trips and rejected_calls
\* each grow by 1, and failure_count, failed_calls and last_failure_time stay.
C5_DenialRaisesCircuitBreakerOpen ==
    /\ Denied =>
          /\ pc = "idle"
          /\ result.kind = "CircuitBreakerOpen"
          /\ hist.transport_calls = hist.gate.transport_calls
          /\ hist.gate.attempt = 1 => hist.transport_calls = hist.pre.transport_calls
          /\ stats.circuit_breaker_trips = hist.gate.stats.circuit_breaker_trips + 1
          /\ cb.rejected_calls = hist.gate.cb.rejected_calls + 1
          /\ cb.failure_count = hist.gate.cb.failure_count
          /\ cb.failed_calls = hist.gate.cb.failed_calls
          /\ cb.last_failure_time = hist.gate.cb.last_failure_time
          /\ cb.state = OPEN
    /\ result.kind = "CircuitBreakerOpen" => Denied

C5_Witness ==
    /\ Denied
    /\ hist.gate.attempt = 1
    /\ result.kind = "CircuitBreakerOpen"
    /\ hist.ncalls >= 2

\* the entries of cache c stored under the key of a GET of url that have not
\* expired at time t
FreshEntries(c, url, t) ==
    { i \in 1..Len(c.entries) :
        /\ c.entries[i].key = MakeKey(c, GenerateCacheKey("GET", url))
        /\ ~(c.entries[i].ttl > 0 /\ t - c.entries[i].created_at >= c.entries[i].ttl) }

\* the call found its response in the cache
FoundInCache ==
    /\ hist.pre.valid
    /\ hist.pre.method = "GET"
    /\ hist.pre.use_cache
    /\ FreshEntries(hist.pre.cache, hist.pre.url, hist.pre.now) # {}

\* C6: a GET with use_cache whose response is in the cache and has not expired
\* is answered from the cache: no transport attempt, cache_hits + 1, the stored
\* response returned, total_requests and the breaker untouched.
C6_CacheHit ==
    FoundInCache =>
        /\ pc = "idle"
        /\ result.kind = "response"
        /\ \E i \in FreshEntries(hist.pre.cache, hist.pre.url, hist.pre.now) :
              result.value = hist.pre.cache.entries[i].value
        /\ hist.transport_calls = hist.pre.transport_calls
        /\ stats.cache_hits = hist.pre.stats.cache_hits + 1
        /\ stats.total_requests = hist.pre.stats.total_requests
        /\ cb = hist.pre.cb

C6_Witness ==
    /\ FoundInCache
    /\ result.kind = "response"
    /\ hist.pre.cb.state = OPEN
    /\ stats.cache_hits = 1

\* C7: the breaker's state changes only Closed -> Open (a counted failure
\* reaching failure_threshold), Open -> HalfOpen (a permission check once
\* recovery_timeout has elapsed since the last failure), HalfOpen -> Closed
\* (success_count reaching success_threshold), HalfOpen -> Open (any counted
\* failure) and any -> Closed by reset(); each trigger does make its transition.
C7_Transitions ==
    [][ /\ cb'.state # cb.state =>
            \/ /\ cb.state = CLOSED /\ cb'.state = OPEN
               /\ op'.name = "record_failure"
               /\ cb.failure_count + 1 >= cb.failure_threshold
            \/ /\ cb.state = OPEN /\ cb'.state = HALF_OPEN
               /\ op'.name \in {"allow_request", "is_open"}
               /\ cb.last_failure_time # None
               /\ now - cb.last_failure_time >= cb.recovery_timeout
            \/ /\ cb.state = HALF_OPEN /\ cb'.state = CLOSED
               /\ op'.name = "record_success"
               /\ cb.success_count + 1 >= cb.success_threshold
            \/ /\ cb.state = HALF_OPEN /\ cb'.state = OPEN
               /\ op'.name = "record_failure"
            \/ /\ cb'.state = CLOSED
               /\ op'.name = "reset"
        /\ (op'.name = "record_failure" /\ cb.state = CLOSED
              /\ cb.failure_count + 1 >= cb.failure_threshold) => cb'.state = OPEN
        /\ (op'.name = "record_failure" /\ cb.state = HALF_OPEN) => cb'.state = OPEN
        /\ (op'.name = "record_success" /\ cb.state = HALF_OPEN
              /\ cb.success_count + 1 >= cb.success_threshold) => cb'.state = CLOSED
        /\ (op'.name \in {"allow_request", "is_open"} /\ cb.state = OPEN
              /\ now - cb.last_failure_time >= cb.recovery_timeout) =>
              cb'.state = HALF_OPEN
        /\ op'.name = "reset" => cb'.state = CLOSED
      ]_vars

C7_Witness ==
    /\ cb.state = CLOSED
    /\ cb.state_transitions >= 3
    /\ op.name = "record_success"

\* C8: with failure_threshold >= 1 and success_threshold >= 1, after any
\* sequence of allow_request, record_success, record_failure and reset calls:
\* Closed has failure_count < failure_threshold, HalfOpen has success_count <
\* success_threshold, Open has last_failure_time set.
C8_BreakerInvariant ==
    /\ cb.state = CLOSED => cb.failure_count < cb.failure_threshold
    /\ cb.state = HALF_OPEN => cb.success_count < cb.success_threshold
    /\ cb.state = OPEN => cb.last_failure_time # None

C8_Witness ==
    /\ cb.state = HALF_OPEN
    /\ cb.success_count = 1
    /\ cb.failed_calls >= 1
    /\ op.name = "record_success"

\* C9: after any sequence of set, get, delete, exists and clear on an
\* InMemoryCache with max_size >= 1, it holds at most max_size entries.
C9_SizeAtMostMaxSize ==
    Size(cache) <= cache.max_size

C9_Witness ==
    /\ op.name = "set"
    /\ now = 0
    /\ Size(cache) = cache.max_size
    /\ cache.stats.evictions >= 1

\* entry e has expired at time t: ttl > 0 and its age has reached ttl
Expired(e, t) == e.ttl > 0 /\ t - e.created_at >= e.ttl

\* C10: get(key) removes every expired entry and adds their number to
\* stats.evictions; for a missing or expired key it returns absent and records
\* a miss; when it returns no entry left is expired; an entry with ttl <= 0 is
\* not removed.
C10_GetEvictsExpired ==
    [][ op'.name = "get" =>
          LET before == cache.entries
              after == cache'.entries
              gone == { i \in 1..Len(before) : Expired(before[i], now) }
              full_key == MakeKey(cache, op'.key)
          IN  /\ cache'.stats.evictions = cache.stats.evictions + Cardinality(gone)
              /\ Len(after) = Len(before) - Cardinality(gone)
              /\ \A j \in 1..Len(after) : ~Expired(after[j], now')
              /\ \A i \in 1..Len(before) :
                    before[i].ttl <= 0 =>
                        \E j \in 1..Len(after) : after[j].key = before[i].key
              /\ (\A i \in 1..Len(before) :
                     before[i].key = full_key => Expired(before[i], now)) =>
                    /\ op'.ret = None
                    /\ cache'.stats.misses = cache.stats.misses + 1
                    /\ cache'.stats.hits = cache.stats.hits
      ]_vars

C10_Witness ==
    /\ op.name = "get"
    /\ op.removed >= 1
    /\ op.ret = None
    /\ \E j \in 1..Len(cache.entries) :
          cache.entries[j].ttl <= 0 /\ cache.entries[j].created_at < now

\* the keys cache c holds, as the caller names them
KeysIn(c) ==
    { k \in Keys : \E i \in 1..Len(c.entries) : c.entries[i].key = MakeKey(c, k) }

\* C11: eviction is strict LRU by access: when set evicts, the entry removed is
\* the one whose last access (get hit or set) is the oldest among the entries
\* present, every other entry stays, and a get hit or a set makes its key the
\* most recent one.
C11_StrictLru ==
    [][ LET held == KeysIn(cache)
            oldest == { k \in held : \A j \in held : op.access[k] <= op.access[j] }
        IN  /\ (op'.name = "set" /\ cache'.stats.evictions > cache.stats.evictions) =>
                  /\ cache'.stats.evictions = cache.stats.evictions + 1
                  /\ KeysIn(cache') = (held \ oldest) \cup { op'.key }
                  /\ Cardinality(oldest) = 1
            /\ (op'.name = "set" /\ cache'.stats.evictions = cache.stats.evictions) =>
                  KeysIn(cache') = held \cup { op'.key }
            /\ (op'.name = "set" \/ (op'.name = "get" /\ op'.ret # None)) =>
                  /\ Last(cache'.entries).key = MakeKey(cache, op'.key)
                  /\ \A k \in Keys \ { op'.key } : op'.access[k] < op'.access[op'.key]
            /\ \A i, j \in 1..Len(cache'.entries) :
                  \A k, l \in Keys :
                     (i < j /\ cache'.entries[i].key = MakeKey(cache, k)
                            /\ cache'.entries[j].key = MakeKey(cache, l)) =>
                         op'.access[k] < op'.access[l]
      ]_vars

\* a cache of max_size 2 was filled, its first key was read, a third key was
\* set: the first key is still there and the second is gone
C11_Witness ==
    /\ op.name = "set"
    /\ cache.max_size = 2
    /\ cache.stats.sets = 3
    /\ cache.stats.hits = 1
    /\ cache.stats.evictions = 1
    /\ Size(cache) = 2
    /\ cache.entries[1].value = 1
    /\ cache.entries[2].value = 3

\* the status of the response the last transport attempt returned
LastStatus == Last(hist.outcomes).status_code

\* the try statement has just dealt with a response
Responded ==
    /\ op.name = "respond"
    /\ Last(hist.outcomes).kind = "response"

\* C12: a response status s is followed by a retry iff s is in retry_on_status
\* and (the method is idempotent or s = 429), attempts remaining; no other
\* status is retried, whatever retry_on_status is.
C12_RetryIffRetryableStatus ==
    Responded =>
        LET retryable ==
              /\ LastStatus \in retry_config.retry_on_status
              /\ \/ call.method \in retry_config.idempotent_methods
                 \/ LastStatus = 429
        IN  /\ call.attempt < retry_config.max_attempts =>
                  (pc = "sleep" <=> retryable)
            /\ ~retryable => pc # "sleep"

\* C13: a response with a non-retryable error status (400, 401, 403, 404) is
\* not retried, is recorded as one breaker failure and no breaker success, and
\* ends the call with the typed error of its status (401 AuthenticationError,
\* 403 AuthorizationError, 404 NotFoundError), never with a returned response.
C13_NonRetryableStatusRaisesTypedError ==
    (Responded /\ LastStatus \in {400, 401, 403, 404}
       /\ LastStatus \notin retry_config.retry_on_status) =>
        /\ pc = "idle"
        /\ result.kind # "response"
        /\ LastStatus # 400 => result.kind = TypedError(LastStatus)
        /\ cb.failed_calls = hist.gate.allowed.failed_calls + 1
        /\ cb.successful_calls = hist.gate.allowed.successful_calls

\* every transport attempt of the call was answered with a retryable status
\* other than 429
AllServerErrors ==
    /\ Len(hist.outcomes) >= 1
    /\ \A i \in 1..Len(hist.outcomes) :
          /\ hist.outcomes[i].kind = "response"
          /\ hist.outcomes[i].status_code # 429
          /\ hist.outcomes[i].status_code \in retry_config.retry_on_status

\* C14: a retryable status other than 429 ends the call with ServerError
\* carrying that status and exactly one breaker failure: at once, on the first
\* attempt and with no sleep, for a non-idempotent method; after max_attempts
\* attempts for an idempotent method whose every attempt got such a status.
C14_ServerErrorWithOneBreakerFailure ==
    /\ (Responded /\ AllServerErrors
          /\ call.method \notin retry_config.idempotent_methods) =>
          /\ pc = "idle"
          /\ Len(hist.outcomes) = 1
          /\ hist.slept = << >>
          /\ result.kind = "ServerError"
          /\ result.status_code = LastStatus
          /\ cb.failed_calls = hist.pre.cb.failed_calls + 1
    /\ (CallEnded /\ AllServerErrors
          /\ call.method \in retry_config.idempotent_methods) =>
          /\ Len(hist.outcomes) = retry_config.max_attempts
          /\ result.kind = "ServerError"
          /\ result.status_code = LastStatus
          /\ cb.failed_calls = hist.pre.cb.failed_calls + 1

\* the transport has just raised an exception of the given kind
TransportRaised(kind) ==
    /\ op.name = "respond"
    /\ Last(hist.outcomes).kind = kind

\* the breaker has one failure more than allow_request left it with, recorded
\* at the present time
FailureRecorded ==
    /\ cb.failed_calls = hist.gate.allowed.failed_calls + 1
    /\ cb.failure_count = hist.gate.allowed.failure_count + 1
    /\ cb.last_failure_time = now

\* C15: a transport attempt that times out (resp. fails to connect) is always
\* recorded as a breaker failure; it is followed by a retry iff
\* retry_on_timeout (resp. retry_on_connection_error) and attempt <
\* max_attempts; otherwise the call raises TimeoutError (resp. ConnectionError)
\* carrying url, method and the underlying cause.
C15_TimeoutAndConnectFailure ==
    /\ TransportRaised("timeout") =>
          /\ FailureRecorded
          /\ pc = "sleep" <=>
                (retry_config.retry_on_timeout
                   /\ call.attempt < retry_config.max_attempts)
          /\ pc # "sleep" =>
                /\ pc = "idle"
                /\ result.kind = "TimeoutError"
                /\ result.url = call.url /\ result.method = call.method
                /\ result.cause = "TimeoutException"
    /\ TransportRaised("connect_error") =>
          /\ FailureRecorded
          /\ pc = "sleep" <=>
                (retry_config.retry_on_connection_error
                   /\ call.attempt < retry_config.max_attempts)
          /\ pc # "sleep" =>
                /\ pc = "idle"
                /\ result.kind = "ConnectionError"
                /\ result.url = call.url /\ result.method = call.method
                /\ result.cause = "ConnectError"

\* a call that retried after a timeout and gave up on a timeout at its last
\* attempt
C15_Witness ==
    /\ TransportRaised("timeout")
    /\ retry_config.retry_on_timeout
    /\ hist.outcomes[1].kind = "timeout"
    /\ call.attempt = retry_config.max_attempts
    /\ result.kind = "TimeoutError"
    /\ result.method = "POST"

\* C16: for every attempt n >= 1 and every backoff descriptor with
\* 0 <= initial_delay <= max_delay and 0 <= jitter_ratio, calculate_delay(n)
\* lies in [0, max_delay], also after jitter; with jitter disabled it equals
\* min(initial_delay * multiplier^(n-1), max_delay).
C16_DelayWithinBounds ==
    op.name = "calculate_delay" =>
        /\ 0 <= op.ret
        /\ op.ret <= backoff.max_delay
        /\ ~backoff.jitter =>
              op.ret = Min(backoff.initial_delay
                             * Pow(backoff.multiplier, op.attempt - 1),
                           backoff.max_delay)

\* the values the last logging event was given under a name of the header
\* redaction list or of the query redaction list
SensitiveValues ==
    { op.headers[i][2] : i \in { j \in 1..Len(op.headers) :
          Lower(op.headers[j][1]) \in op.config.redact_headers } }
      \cup { op.url.query[i][2] : i \in { j \in 1..Len(op.url.query) :
          Lower(op.url.query[j][1]) \in op.config.redact_query_params } }

\* C17: no log line emitted during a call (request-start, header, retry,
\* response, cache and middleware events) contains, as a substring, the value of
\* a header or query parameter whose lower-cased name is in the redaction list.
C17_NoSensitiveValueInLogs ==
    \A i \in 1..Len(op.lines) :
        \A v \in SensitiveValues : ~Contains(op.lines[i], v)

\* n calls of record_failure one after the other
RECURSIVE RecordFailures(_, _, _)
RecordFailures(b, t, n) ==
    IF n = 0 THEN b ELSE RecordFailures(RecordFailure(b, t), t, n - 1)

\* the record_failure calls the threads have completed
RECURSIVE CallsOf(_)
CallsOf(ts) ==
    IF ts = {} THEN 0
    ELSE LET t == CHOOSE x \in ts : TRUE IN call[t].calls + CallsOf(ts \ {t})

\* C18: under any interleaving of concurrent record_failure calls on a breaker
\* that starts Closed, Closed -> Open is taken at most once; and once all calls
\* have returned the breaker is the one the same calls give one after the other:
\* state_transitions is 1 exactly if the threshold was reached, failure_count,
\* failed_calls and total_calls equal the number of calls.
C18_RecordFailureLinearizable ==
    /\ cb.state_transitions <= 1
    /\ cb.state = OPEN => cb.failure_count >= cb.failure_threshold
    /\ (\A t \in Threads : pc[t] = "idle") =>
          LET n == CallsOf(Threads) IN
          /\ cb = RecordFailures(NewCircuitBreaker(cb.failure_threshold,
                      cb.success_threshold, cb.recovery_timeout), now, n)
          /\ cb.failure_count = n
          /\ cb.failed_calls = n
          /\ cb.total_calls = n
          /\ cb.state_transitions = (IF n >= cb.failure_threshold THEN 1 ELSE 0)
          /\ cb.state = (IF n >= cb.failure_threshold THEN OPEN ELSE CLOSED)

\* every thread has made its calls and the breaker went Closed -> Open once
C18_Witness ==
    /\ \A t \in Threads : pc[t] = "idle" /\ call[t].calls = MaxThreadCalls
    /\ cb.state = OPEN
    /\ cb.state_transitions = 1
    /\ cb.failure_count = NumThreads * MaxThreadCalls

\* C19: after any interleaving of concurrent _make_request calls on one
\* client, once all of them have ended, total_requests equals the number of
\* attempts begun and total_retries, successful_requests, failed_requests,
\* cache_hits and cache_misses equal the number of their events.
C19_NoLostStatsUpdate ==
    (\A t \in Threads : pc[t] = "idle") =>
        \A f \in StatsFields \ {"circuit_breaker_trips"} :
            stats[f] = hist.events[f]

\* C20: the blocking and the async client have the same semantics: whenever a
\* request is with the transport, then for every outcome (429 responses whose
\* Retry-After exceeds max_retry_after included) the async client's try
\* statement leaves the same result, the same sleep delay, the same stats,
\* retry fields, cache and breaker as the blocking client's.
C20_AsyncSameAsBlocking ==
    pc = "transport" =>
        \A o \in Outcomes(hist.transport_calls) :
            AsyncAttempt(ClientState, retry_config, backoff, call, o, now, 0)
              = Attempt(ClientState, retry_config, backoff, call, o, now, 0)

\* C21: for a chain m1..mk, process_request calls m1..mk in insertion order,
\* each with the context the previous one returned, and returns what mk
\* returned; process_response calls mk..m1, each with the response the previous
\* one returned; process_error calls mk..m1 with the error. (A middleware that
\* raises ends the loop.)
C21_ChainOrder ==
    LET k == Len(middleware)
        n == Len(op.calls)
    IN  /\ op.name = "process_request" =>
              /\ n <= k
              /\ ~op.raised => n = k
              /\ \A i \in 1..n :
                    /\ op.calls[i].mw = middleware[i]
                    /\ op.calls[i].given =
                         (IF i = 1 THEN op.given
                          ELSE MwProcessRequest(middleware[i - 1],
                                                op.calls[i - 1].given).context)
              /\ ~op.raised =>
                    op.ret = (IF k = 0 THEN op.given
                              ELSE MwProcessRequest(middleware[k],
                                                    op.calls[k].given).context)
        /\ op.name = "process_response" =>
              /\ n <= k
              /\ ~op.raised => n = k
              /\ \A i \in 1..n : op.calls[i].mw = middleware[k + 1 - i]
              /\ \A i \in 2..n :
                    op.calls[i].given =
                        MwProcessResponse(middleware[k + 2 - i], op.request,
                                          op.calls[i - 1].given).response
              /\ n >= 1 => op.calls[1].given = op.given
        /\ op.name = "process_error" =>
              /\ n = k
              /\ \A i \in 1..n : /\ op.calls[i].mw = middleware[k + 1 - i]
                                  /\ op.calls[i].given = op.given

\* a response has gone through a chain of three different middleware, last
\* added first, and the contexts were handed on
C21_Witness ==
    /\ op.name = "process_response"
    /\ middleware = << "UserAgentMiddleware", "ContentTypeMiddleware",
                       "RetryMetadataMiddleware" >>
    /\ ~op.raised
    /\ op.calls[1].mw = "RetryMetadataMiddleware"
    /\ op.calls[3].mw = "UserAgentMiddleware"
    /\ op.ret.metadata = {"retry_count", "content_type", "is_json"}

\* C22: what a pre-phase middleware changed in the request's headers or body
\* is what every transport attempt of the call sends: each request handed to
\* the transport carries the headers and the body of the context the pre-phase
\* returned.
C22_PrePhaseChangeIsSent ==
    pc \in {"gate", "transport", "sleep"} \/ (pc = "idle" /\ Len(hist.sent) > 0) =>
        \A i \in 1..Len(hist.sent) :
            /\ hist.sent[i].headers = call.context.headers
            /\ hist.sent[i].body = call.context.body

\* the post-phase of the call's last response raised
PostPhaseRaised ==
    /\ CallEnded
    /\ op.name = "respond"
    /\ result.kind = "RequestError"
    /\ Last(hist.outcomes).kind = "response"
    /\ Last(hist.outcomes).status_code = 200

\* C23: when a middleware raises in the post-phase the call aborts and the
\* breaker keeps the success recorded for the response: failure_count,
\* failed_calls and state are as record_success left them.
C23_PostPhaseErrorKeepsSuccess ==
    PostPhaseRaised =>
        LET after == RecordSuccess(hist.gate.allowed) IN
        /\ cb.failure_count = after.failure_count
        /\ cb.failed_calls = after.failed_calls
        /\ cb.state = after.state

\* the error handed to record_failure is one the breaker counts: none was
\* given, or it is an instance of an expected class and of no excluded class
Counted(b, exception) ==
    \/ exception = NoException
    \/ /\ IsInstance(exception, b.expected_exceptions)
       /\ ~IsInstance(exception, b.excluded_exceptions)

\* C24: record_failure(error) counts the failure (failure_count and
\* failed_calls one more, last_failure_time the time of the call) only if the
\* error's kind is among the expected kinds and not among the excluded ones;
\* otherwise the whole breaker is as it was. With no error given the failure
\* is always counted.
C24_FailureFiltering ==
    op.name = "record_failure" =>
        IF Counted(op.before, op.exception)
        THEN /\ cb.failure_count = op.before.failure_count + 1
             /\ cb.failed_calls = op.before.failed_calls + 1
             /\ cb.total_calls = op.before.total_calls + 1
             /\ cb.last_failure_time = op.at
        ELSE cb = op.before

\* after a counted failure, a ValueError is handed to a breaker that excludes
\* ValueError, and a TimeoutError to one that expects only OSError
C24_Witness ==
    /\ op.name = "record_failure"
    /\ cb.failed_calls = 1
    /\ \/ /\ op.exception = "ValueError"
          /\ "ValueError" \in cb.excluded_exceptions
          /\ op.before.failed_calls = 1
       \/ /\ op.exception = "TimeoutError"
          /\ cb.expected_exceptions = {"OSError"}
          /\ cb.excluded_exceptions = {}
          /\ op.before.failed_calls = 0

\* the breaker operation recorded in op, without its callbacks
WithoutCallbacks ==
    CASE op.name = "record_failure" ->
             IF Counted(op.before, op.exception)
             THEN RecordFailure(op.before, op.at)
             ELSE op.before
      [] op.name = "record_success" -> RecordSuccess(op.before)
      [] op.name = "allow_request"  -> AllowRequest(op.before, op.at).cb
      [] op.name = "reset"          -> Reset(op.before)
      [] OTHER                      -> cb

\* the callbacks of a breaker in the order of their registration:
\* on_state_change, then the listeners
AllCallbacks(b) ==
    (IF b.on_state_change # NoCallback THEN << b.on_state_change >> ELSE << >>)
    \o b.listeners

\* C25: on every state transition the on_state_change callback and the
\* registered listeners are all invoked, in order, with (old_state,
\* new_state); a callback that raises neither alters the transition nor keeps
\* the remaining callbacks from being invoked, and no exception leaves the
\* breaker operation.
C25_CallbacksIsolated ==
    op.name \in {"record_failure", "record_success", "allow_request", "reset"} =>
        /\ cb = WithoutCallbacks
        /\ ~op.raised
        /\ IF cb.state # op.before.state
           THEN /\ Len(op.calls) = Len(AllCallbacks(cb))
                /\ \A i \in 1..Len(op.calls) :
                      op.calls[i] = Invocation(AllCallbacks(cb)[i],
                                               op.before.state, cb.state)
           ELSE op.calls = << >>

\* C26: invalid configurations are rejected at construction: a retry policy
\* with max_attempts < 1, a breaker with failure_threshold < 1 or
\* success_threshold < 1, a backoff with max_delay < initial_delay; the
\* constructor fails and no object is built.
C26_InvalidConfigRejected ==
    /\ op.name = "RetryConfig" /\ op.max_attempts < 1 => op.raised
    /\ op.name = "CircuitBreaker" /\ (op.failure_threshold < 1 \/ op.success_threshold < 1)
          => op.raised
    /\ op.name = "ExponentialBackoff" /\ op.max_delay < op.initial_delay => op.raised

\* C27: when respect_retry_after is false, the delay slept after a 429
\* response is the backoff delay of that attempt, whether or not the response
\* carries a Retry-After header.
C27_RetryAfterIgnoredWhenNotRespected ==
    (pc = "sleep" /\ ~retry_config.respect_retry_after
       /\ Is429(Last(hist.outcomes))) =>
        Last(hist.slept) = CalculateDelay(backoff, call.attempt, 0)

\* the current call has entered its attempt loop (it was not answered from
\* the cache)
InAttemptLoop ==
    hist.pre.valid /\ (pc # "idle" \/ hist.gate.attempt > 0)

\* the call has ended after a retryable response (429 or a status of
\* retry_on_status, idempotent method) on attempt max_attempts
ExhaustedOnStatus ==
    /\ CallEnded
    /\ Len(hist.outcomes) = retry_config.max_attempts
    /\ Last(hist.outcomes).kind = "response"
    /\ \/ Is429(Last(hist.outcomes))
       \/ /\ ShouldRetryOnStatus(Last(hist.outcomes).status_code, retry_config)
          /\ IsIdempotentMethod(call.method, retry_config)

\* C30: the per-call delay list holds exactly the delays slept, in order, and
\* retry_count and total_retries grow only when a retry follows: a call that
\* ends on a retryable outcome of attempt max_attempts has max_attempts - 1
\* delays and retries.
C30_DelaysAreTheSleeps ==
    InAttemptLoop =>
        /\ retry_delays = hist.slept
        /\ retry_count <= Len(hist.slept)
        /\ stats.total_retries - hist.pre.stats.total_retries = Len(hist.slept)

\* C29: after reset(), called in any state, the breaker is Closed with
\* failure_count = 0, success_count = 0 and last_failure_time cleared, so the
\* next allow_request is permitted; a second reset() changes nothing.
C29_ResetClears ==
    op.name = "reset" =>
        /\ cb.state = CLOSED
        /\ cb.failure_count = 0
        /\ cb.success_count = 0
        /\ cb.last_failure_time = None
        /\ AllowRequest(cb, now).ret
        /\ ResetNotify(cb).cb = cb

\* C28: a cancellation delivered while a call sleeps between two attempts
\* ends the call with the cancellation error and records no breaker failure:
\* failure_count, failed_calls and state are what they were, and
\* failed_requests is not incremented.
C28_CancellationIsNotAFailure ==
    op.name = "cancel" =>
        /\ pc = "idle"
        /\ result.kind = op.kind
        /\ cb.failure_count = op.cb.failure_count
        /\ cb.failed_calls = op.cb.failed_calls
        /\ cb.state = op.cb.state
        /\ stats.failed_requests = op.stats.failed_requests

\* a call is cancelled in the sleep that follows the 429 response of its
\* second attempt
C28_Witness ==
    /\ op.name = "cancel"
    /\ op.kind = "CancelledError"
    /\ call.attempt = 2
    /\ Is429(Last(hist.outcomes))
    /\ result.kind = "CancelledError"

\* steps a call in progress can still take: three per attempt not yet begun,
\* less the position reached within the current one
Rank ==
    3 * (retry_config.max_attempts - call.attempt)
      + (CASE pc = "transport" -> 2 [] pc = "sleep" -> 1 [] OTHER -> 0)

\* the statement after the attempt loop was reached
FellThrough == op.name = "gate" /\ pc = "idle" /\ result.kind = "RequestError"

\* C31: with max_attempts >= 1 and a transport that always answers, a call
\* ends after at most max_attempts transport attempts, from inside the loop:
\* it sleeps and comes back to the head of the loop only with an attempt
\* left, the statement after the loop is never reached, and every step of a
\* call in progress either ends it or brings it nearer to its last attempt.
C31_CallTerminatesInsideLoop ==
    /\ [](/\ Len(hist.outcomes) <= retry_config.max_attempts
          /\ call.attempt <= retry_config.max_attempts
          /\ pc \in {"gate", "sleep"} => call.attempt < retry_config.max_attempts
          /\ ~FellThrough)
    /\ [][pc # "idle" => (pc' = "idle" \/ Rank' < Rank)]_vars

\* a call has ended on the timeout of its last attempt, after max_attempts
\* transport attempts
C31_Witness ==
    /\ CallEnded
    /\ Len(hist.outcomes) = retry_config.max_attempts
    /\ result.kind = "TimeoutError"
    /\ Len(hist.slept) = retry_config.max_attempts - 1

\* the chain holds a middleware whose process_request raises
HasRejecting ==
    \E i \in 1..Len(middleware) : middleware[i] = "RejectingMiddleware"

\* C32: when a middleware raises in the pre-phase the call aborts before any
\* attempt: nothing is handed to the transport, total_requests is not
\* incremented, and the breaker is neither asked for permission nor updated.
C32_PrePhaseErrorAbortsBeforeAttempts ==
    HasRejecting /\ hist.pre.valid =>
        /\ pc = "idle"
        /\ result.kind = "Exception"
        /\ hist.sent = << >>
        /\ hist.transport_calls = 0
        /\ stats = NewClientStats
        /\ cb = hist.pre.cb

\* a call through a chain whose second middleware raises in the pre-phase
\* has ended with that exception
C32_Witness ==
    /\ middleware = << "HeaderMiddleware", "RejectingMiddleware" >>
    /\ hist.pre.valid
    /\ op.name = "execute"
    /\ result.kind = "Exception"

\* the call has ended by returning a response that came from the transport
ReturnedFromTransport ==
    CallEnded /\ result.kind = "response" /\ Len(hist.outcomes) > 0

\* the cache holds, under the key of the call, the response the call returned
Stored ==
    \E i \in 1..Len(cache.entries) :
        /\ cache.entries[i].key = MakeKey(cache, GenerateCacheKey(call.method, call.url))
        /\ cache.entries[i].value = result.value

\* the call was one the cache is consulted for and its response is one the
\* cache keeps
Cacheable ==
    /\ call.method = "GET"
    /\ call.use_cache
    /\ 200 <= result.status_code
    /\ result.status_code < 300

\* C33: after a cache miss the final response is stored iff the method is
\* GET, use_cache is true and the status is in [200, 300); a response with
\* another status, or to another method, is not stored, and when the call
\* had looked the key up and missed, the same request made again misses too.
C33_StoredIffGet2xx ==
    ReturnedFromTransport =>
        /\ Stored <=> Cacheable
        /\ ~Cacheable /\ call.use_cache /\ call.method = "GET" =>
              CacheGet(cache, GenerateCacheKey(call.method, call.url), now).ret = None

\* a GET with use_cache whose 404 was not stored is made again, misses again
\* and stores its 200
C33_Witness ==
    /\ ReturnedFromTransport
    /\ op.name = "respond"
    /\ Cacheable
    /\ Stored
    /\ stats.cache_misses = 2
    /\ stats.cache_hits = 0
    /\ cache.stats.sets = 1

\* in Closed, failure_count is the number of failures recorded since the last
\* success, reset or closing: a failure adds one, a success or a reset makes
\* it 0, nothing else changes it
ConsecutiveFailuresCounted ==
    cb.state = CLOSED /\ cb'.state = CLOSED =>
        cb'.failure_count =
            CASE op'.name = "record_failure" -> cb.failure_count + 1
              [] op'.name \in {"record_success", "reset"} -> 0
              [] OTHER -> cb.failure_count

\* the breaker leaves Closed only in the record_failure that brings
\* failure_count to failure_threshold
OpensAtThreshold ==
    cb.state = CLOSED /\ cb'.state # CLOSED =>
        /\ op'.name = "record_failure"
        /\ cb'.state = OPEN
        /\ cb'.failure_count = cb.failure_count + 1
        /\ cb'.failure_count = cb.failure_threshold

\* C34: in Closed, record_success resets failure_count to 0, so the breaker
\* opens only after failure_threshold failures with no success in between;
\* failures interleaved with successes so that fewer than failure_threshold
\* are consecutive keep it Closed.
C34_OpensOnlyOnConsecutiveFailures ==
    /\ [](cb.state = CLOSED => cb.failure_count < cb.failure_threshold)
    /\ [](cb.state = CLOSED /\ op.name = "record_success" => cb.failure_count = 0)
    /\ [][ConsecutiveFailuresCounted /\ OpensAtThreshold]_vars

\* failure, success, failure with failure_threshold 2: as many failures as
\* the threshold, not consecutive, and the breaker has never left Closed
C34_Witness ==
    /\ cb.state = CLOSED
    /\ cb.state_transitions = 0
    /\ cb.failed_calls = cb.failure_threshold
    /\ cb.failure_threshold = 2
    /\ cb.successful_calls = 1
    /\ cb.failure_count = 1
    /\ op.name = "record_failure"

\* the invocation of func was a failure the wrapper retries: it raised an
\* Exception
Failed(outcome) ==
    outcome.kind = "raise" /\ IsInstance(outcome.exception, {"Exception"})

\* the wrapper has returned or raised
WrapperEnded == pc = "idle" /\ result.kind \in {"returned", "raised"}

\* C35: a wrapped function is invoked at most max_attempts times per call;
\* the first successful result is returned with no further invocation; after
\* max_attempts consecutive failures the last exception is re-raised; a sleep
\* occurs between consecutive attempts and never after the last one.
C35_DecoratorAttempts ==
    pc \in {"invoke", "sleep"} \/ WrapperEnded =>
        /\ Len(hist.outcomes) <= retry_config.max_attempts
        /\ call.attempt = Len(hist.outcomes)
        /\ \A i \in 1..(Len(hist.outcomes) - 1) : Failed(hist.outcomes[i])
        /\ pc = "invoke" =>
              /\ Len(hist.slept) = Len(hist.outcomes)
              /\ call.attempt < retry_config.max_attempts
        /\ pc = "sleep" =>
              /\ Len(hist.slept) = Len(hist.outcomes) - 1
              /\ Failed(Last(hist.outcomes))
              /\ call.attempt < retry_config.max_attempts
        /\ WrapperEnded =>
              /\ Len(hist.outcomes) >= 1
              /\ Len(hist.slept) = Len(hist.outcomes) - 1
              /\ result.value = Last(hist.outcomes).id
              /\ result.kind = "returned" <=> Last(hist.outcomes).kind = "return"
              /\ Failed(Last(hist.outcomes)) =>
                    /\ Len(hist.outcomes) = retry_config.max_attempts
                    /\ result.cause = Last(hist.outcomes).exception

\* three failures with max_attempts 3: the third exception is raised after
\* two sleeps
C35_Witness ==
    /\ WrapperEnded
    /\ retry_config.max_attempts = 3
    /\ Len(hist.outcomes) = 3
    /\ Failed(Last(hist.outcomes))
    /\ result.kind = "raised"
    /\ Len(hist.slept) = 2

\* the attempt that has just asked the breaker is the second or a later one
\* of its call, the call found the breaker Closed, every earlier attempt of
\* the call timed out or failed to connect, and the attempt found the
\* breaker Open
OpenedByOwnFailures ==
    /\ op.name = "gate"
    /\ hist.gate.attempt >= 2
    /\ Len(hist.outcomes) = hist.gate.attempt - 1
    /\ \A i \in 1..Len(hist.outcomes) :
          hist.outcomes[i].kind \in {"timeout", "connect_error"}
    /\ hist.pre.cb.state = CLOSED
    /\ hist.gate.cb.state = OPEN

\* the attempt was denied: CircuitBreakerOpen, nothing handed to the
\* transport, one more trip
AttemptDenied ==
    /\ pc = "idle"
    /\ result.kind = "CircuitBreakerOpen"
    /\ hist.transport_calls = hist.gate.transport_calls
    /\ stats.circuit_breaker_trips = hist.gate.stats.circuit_breaker_trips + 1

\* the attempt was admitted on trial: the breaker went HalfOpen and the
\* request was handed to the transport
AttemptAdmitted ==
    /\ pc = "transport"
    /\ cb.state = HALF_OPEN
    /\ hist.transport_calls = hist.gate.transport_calls + 1
    /\ stats.circuit_breaker_trips = hist.gate.stats.circuit_breaker_trips

\* C36 as stated: when the breaker opens during a call because of the call's
\* own timed-out or connection-failed attempts, the next attempt of the call
\* is denied with CircuitBreakerOpen, no further transport attempt is made
\* and circuit_breaker_trips increases by 1.
C36_NextAttemptDenied ==
    OpenedByOwnFailures => AttemptDenied

\* C36 amended: the next attempt of the call is denied when the sleep before
\* it was shorter than recovery_timeout; when the sleep lasted
\* recovery_timeout or longer the breaker goes HalfOpen and the attempt is
\* handed to the transport.
C36_NextAttemptDeniedUnlessRecovered ==
    OpenedByOwnFailures =>
        IF Last(hist.slept) < hist.gate.cb.recovery_timeout
        THEN AttemptDenied
        ELSE AttemptAdmitted

\* a call whose first attempt timed out and opened the breaker, slept less
\* than recovery_timeout and was denied at its second attempt
C36_Witness ==
    /\ OpenedByOwnFailures
    /\ Last(hist.slept) < hist.gate.cb.recovery_timeout
    /\ AttemptDenied
    /\ Last(hist.outcomes).kind = "timeout"

\* C37: the per-call delay list reported after an execute call reflects only
\* that call's retries, also when other calls run concurrently on the same
\* client: a call that made k attempts, each but the last ended by a timeout
\* that was retried, reports k - 1 delays.
C37_DelaysArePerCall ==
    \A t \in Threads :
        pc[t] = "return" /\ call[t].attempt >= 1 =>
            Len(retry_delays) = call[t].attempt - 1

\* C38: in every reachable state of a client, successful_requests +
\* failed_requests <= total_requests: each attempt is counted as at most one
\* of success or failure, whatever the transport or the middleware does.
C38_AttemptCountedOnce ==
    stats.successful_requests + stats.failed_requests <= stats.total_requests

\* a failure recorded while the breaker is Open leaves the state and
\* state_transitions alone, adds one to failure_count and sets
\* last_failure_time to the time of the failure
FailureWhileOpen ==
    cb.state = OPEN /\ op'.name = "record_failure" =>
        /\ cb'.state = OPEN
        /\ cb'.state_transitions = cb.state_transitions
        /\ cb'.failure_count = cb.failure_count + 1
        /\ cb'.last_failure_time = now

\* the breaker goes from Open to HalfOpen only when recovery_timeout has
\* passed since the latest failure
HalfOpenAfterRecovery ==
    cb.state = OPEN /\ cb'.state = HALF_OPEN =>
        /\ cb.last_failure_time # None
        /\ now - cb.last_failure_time >= cb.recovery_timeout

\* C39: a failure recorded while the breaker is Open causes no state
\* transition and no state_transitions increment, but increments
\* failure_count and refreshes last_failure_time, so Open -> HalfOpen becomes
\* possible only recovery_timeout after that latest failure.
C39_FailureWhileOpenRefreshes ==
    /\ [](cb.state = OPEN => cb.last_failure_time # None)
    /\ [][FailureWhileOpen /\ HalfOpenAfterRecovery]_vars

\* the breaker opened at time 0, a later failure was recorded while it was
\* Open, and at a time when recovery_timeout has passed since the opening
\* but not since that latest failure the breaker is still Open after
\* is_open or allow_request
C39_Witness ==
    /\ cb.state = OPEN
    /\ cb.failure_count = cb.failure_threshold + 1
    /\ cb.last_failure_time >= 1
    /\ cb.recovery_timeout > 0
    /\ now >= cb.recovery_timeout
    /\ now - cb.last_failure_time < cb.recovery_timeout
    /\ op.name \in {"is_open", "allow_request"}
    /\ op.ret = (op.name = "is_open")

\* the keys of the cache
CacheKeys(c) == { c.entries[i].key : i \in 1..Len(c.entries) }

\* C40: set(key, value) for a key already present never evicts another
\* entry: every other key stays present, the entry count is unchanged and
\* stats.evictions is unchanged.
C40_OverwriteEvictsNothing ==
    [][op'.name = "set" /\ MakeKey(cache, op'.key) \in CacheKeys(cache) =>
          /\ CacheKeys(cache') = CacheKeys(cache)
          /\ Size(cache') = Size(cache)
          /\ cache'.stats.evictions = cache.stats.evictions]_vars

====
